---- MODULE Spec2Model ----
(***************************************************************************)
(* A model of tradle/protocol: canonical key order and Merkle tree of an   *)
(* object, proofs, links and header hashes, version-chain validation and   *)
(* seal key derivation.                                                    *)
(*                                                                         *)
(* Conventions.  A JavaScript value is a tagged tuple (its typeof first).  *)
(* A plain object is a record [order, at]: its own property names in       *)
(* insertion order (what Object.keys returns for names that are not        *)
(* integer-like; the model uses no integer-like name) and the value of     *)
(* each.  Byte strings and texts are TLC strings.  sha256 is collision     *)
(* free: the digest of d is the text "sha256(d)".  An operation that can   *)
(* throw returns Threw(message) instead of its value.                      *)
(***************************************************************************)
EXTENDS Integers, Sequences, FiniteSets, TLC, Bags

-----------------------------------------------------------------------------
(* JavaScript values *)

\* (every value is a pair, so that no value has the domain of a Threw)
UNDEFINED == <<"undefined", 0>>
NULL == <<"null", 0>>
Num(n) == <<"number", n>>
Str(s) == <<"string", s>>
Buf(s) == <<"buffer", s>>
Arr(items) == <<"array", items>>
Obj(o) == <<"object", o>>
TypeOf(v) == v[1]

EmptyObject == [order |-> <<>>, at |-> <<>>]
Has(o, k) == k \in DOMAIN o.at
Get(o, k) == IF Has(o, k) THEN o.at[k] ELSE UNDEFINED
\* o[k] = v
Put(o, k, v) ==
  IF Has(o, k)
  THEN [o EXCEPT !.at = [o.at EXCEPT ![k] = v]]
  ELSE [order |-> Append(o.order, k), at |-> (k :> v) @@ o.at]
\* o[k] = v for a v that is given: UNDEFINED stands for not given
PutIfSet(obj, k, v) == IF v = UNDEFINED THEN obj ELSE Put(obj, k, v)
\* the elements of a sequence that satisfy Keep, in their order
SelectKeys(s, keep) ==
  LET pos == {i \in DOMAIN s : s[i] \in keep}
      nth(p) == CHOOSE i \in pos : Cardinality({j \in pos : j < i}) = p - 1
  IN [p \in 1..Cardinality(pos) |-> s[nth(p)]]
Range(s) == {s[i] : i \in DOMAIN s}
\* Object.assign(target, source) / { ...target, ...source }
RECURSIVE AssignFrom(_, _, _)
AssignFrom(target, source, i) ==
  IF i > Len(source.order) THEN target
  ELSE AssignFrom(Put(target, source.order[i], source.at[source.order[i]]), source, i + 1)
Assign(target, source) == AssignFrom(target, source, 1)

Threw(message) == [error |-> message]
IsError(r) == DOMAIN r = {"error"}
\* r, when r is what a throwing step threw; else what follows the step
Try(r, following) == IF IsError(r) THEN r ELSE following

\* lib/utils.ts
notExists(input) == input = NULL \/ input = UNDEFINED
exists(input) == input # NULL /\ input # UNDEFINED
ok(input) ==
  /\ exists(input)
  /\ input # <<"boolean", FALSE>>
  /\ input # Num(0)
  /\ input # Str("")

-----------------------------------------------------------------------------
(* Property names *)

SIG == "_s"
TYPE == "_t"
VERSION == "_v"
AUTHOR == "_author"
TIMESTAMP == "_time"
PREVLINK == "_p"
PERMALINK == "_r"
PREVHEADER == "_ph"
WITNESSES == "_w"
ORG_SIG == "_sorg"
PROTOCOL_VERSION == "_pv"

LINK_HEADER_PROPS == <<SIG>>
HEADER_PROPS == LINK_HEADER_PROPS \o <<WITNESSES, ORG_SIG>>

\* The UTF-16 code units of every property name the model uses.
CodeUnits ==
  ("a" :> <<97>>) @@ ("A" :> <<65>>) @@ ("b" :> <<98>>) @@ ("B" :> <<66>>) @@
  ("c" :> <<99>>) @@ ("s" :> <<115>>) @@
  ("_s" :> <<95, 115>>) @@ ("_t" :> <<95, 116>>) @@ ("_v" :> <<95, 118>>) @@
  ("_p" :> <<95, 112>>) @@ ("_r" :> <<95, 114>>) @@ ("_w" :> <<95, 119>>) @@
  ("_ph" :> <<95, 112, 104>>) @@ ("_pv" :> <<95, 112, 118>>) @@
  ("_sorg" :> <<95, 115, 111, 114, 103>>) @@
  ("_time" :> <<95, 116, 105, 109, 101>>) @@
  ("_author" :> <<95, 97, 117, 116, 104, 111, 114>>) @@
  ("dataUrlProp" :> <<100, 97, 116, 97, 85, 114, 108, 80, 114, 111, 112>>) @@
  ("keeperUriProp" :> <<107, 101, 101, 112, 101, 114, 85, 114, 105, 80, 114, 111, 112>>) @@
  ("nestedDataUrlProp" :>
     <<110, 101, 115, 116, 101, 100, 68, 97, 116, 97, 85, 114, 108, 80, 114, 111, 112>>)

\* String.prototype.toLowerCase, on code units
toLowerCase(units) ==
  [i \in DOMAIN units |-> IF units[i] >= 65 /\ units[i] <= 90 THEN units[i] + 32 ELSE units[i]]

\* a < b on strings: lexicographic on code units
StringLess(a, b) ==
  \/ \E i \in 1..Len(a) :
       /\ i <= Len(b)
       /\ a[i] < b[i]
       /\ \A j \in 1..(i - 1) : a[j] = b[j]
  \/ /\ Len(a) < Len(b)
     /\ \A j \in 1..Len(a) : a[j] = b[j]

\* Array.prototype.sort(cmp): a stable sort
Sort(arr, cmp(_, _)) ==
  LET n == Len(arr)
      before(j, i) == cmp(arr[j], arr[i]) < 0 \/ (cmp(arr[j], arr[i]) = 0 /\ j < i)
      rank(i) == Cardinality({j \in 1..n : j # i /\ before(j, i)}) + 1
  IN [p \in 1..n |-> arr[CHOOSE i \in 1..n : rank(i) = p]]

alphabetical(a, b) ==
  LET al == toLowerCase(CodeUnits[a])
      bl == toLowerCase(CodeUnits[b])
  IN IF StringLess(al, bl) THEN -1 ELSE IF StringLess(bl, al) THEN 1 ELSE 0

byIndexSort(a, b) == a.index - b.index

getKeysSorted(obj) == Sort(obj.order, alphabetical)

-----------------------------------------------------------------------------
(* Canonical JSON *)

RECURSIVE JoinFrom(_, _, _)
JoinFrom(parts, sep, i) ==
  IF i > Len(parts) THEN ""
  ELSE IF i = Len(parts) THEN parts[i]
  ELSE parts[i] \o sep \o JoinFrom(parts, sep, i + 1)
Join(parts, sep) == JoinFrom(parts, sep, 1)

\* json-stable-stringify's default key order: a.key < b.key ? -1 : 1
keyOrder(a, b) == IF StringLess(CodeUnits[a], CodeUnits[b]) THEN -1 ELSE 1

RECURSIVE stringify(_)
stringify(v) ==
  CASE TypeOf(v) = "number" -> ToString(v[2])
    [] TypeOf(v) = "string" -> "\"" \o v[2] \o "\""
    [] TypeOf(v) = "null" -> "null"
    [] TypeOf(v) = "array" ->
         "[" \o Join([i \in DOMAIN v[2] |-> stringify(v[2][i])], ",") \o "]"
    [] TypeOf(v) = "object" ->
         LET keys == Sort(v[2].order, keyOrder)
         IN "{" \o Join([i \in DOMAIN keys |->
                   "\"" \o keys[i] \o "\":" \o stringify(v[2].at[keys[i]])], ",") \o "}"

-----------------------------------------------------------------------------
(* Hashes *)

sha256(data) == "sha256(" \o data \o ")"
concatSha256(a, b) == sha256(a \o b)
headerHashFn(data) == sha256(data)

DEFAULT_MERKLE_OPTS == [leaf |-> "sha256", parent |-> "concatSha256"]
\* the functions of test 'use different hash'
PLAIN_MERKLE_OPTS == [leaf |-> "data", parent |-> "concat"]

\* opts.leaf(node), opts.parent(a, b)
LeafHash(opts, node) == IF opts.leaf = "sha256" THEN sha256(node.data) ELSE node.data
ParentHash(opts, a, b) ==
  IF opts.parent = "concatSha256" THEN concatSha256(a.hash, b.hash) ELSE a.hash \o b.hash

\* { ...DEFAULT_MERKLE_OPTS, ...opts }
getMerkleOpts(opts) == opts @@ DEFAULT_MERKLE_OPTS
getMerkleVerifierOpts(opts) == opts @@ DEFAULT_MERKLE_OPTS

-----------------------------------------------------------------------------
(* flat-tree: the index arithmetic of a binary tree laid out in order *)

RECURSIVE Pow2(_)
Pow2(n) == IF n = 0 THEN 1 ELSE 2 * Pow2(n - 1)
RECURSIVE TrailingOnes(_)
TrailingOnes(i) == IF i % 2 = 0 THEN 0 ELSE 1 + TrailingOnes(i \div 2)

FlatIndex(depth, offset) == (1 + 2 * offset) * Pow2(depth) - 1
FlatDepth(i) == TrailingOnes(i)
FlatOffset(i) == ((i + 1) \div Pow2(FlatDepth(i)) - 1) \div 2
FlatParent(i) == FlatIndex(FlatDepth(i) + 1, FlatOffset(i) \div 2)
FlatSibling(i) ==
  FlatIndex(FlatDepth(i), IF FlatOffset(i) % 2 = 1 THEN FlatOffset(i) - 1 ELSE FlatOffset(i) + 1)

-----------------------------------------------------------------------------
(* MerkleGenerator: leaves are fed one by one; two roots with the same     *)
(* parent are replaced by that parent.  On CLOSE_UP the remaining roots    *)
(* are folded into one: a root without a sibling is carried up unchanged.  *)

NoData == ""

RECURSIVE MergeRoots(_, _, _, _)
MergeRoots(opts, roots, nodes, closeUp) ==
  IF Len(roots) <= 1 THEN [roots |-> roots, nodes |-> nodes]
  ELSE
    LET left == roots[Len(roots) - 1]
        right == roots[Len(roots)]
    IN IF left.parent # right.parent
       THEN IF ~closeUp THEN [roots |-> roots, nodes |-> nodes]
            ELSE LET up == [index |-> right.parent, parent |-> FlatParent(right.parent),
                            hash |-> right.hash, data |-> NoData]
                 IN MergeRoots(opts, [roots EXCEPT ![Len(roots)] = up], Append(nodes, up), closeUp)
       ELSE LET node == [index |-> left.parent, parent |-> FlatParent(left.parent),
                         hash |-> ParentHash(opts, left, right), data |-> NoData]
            IN MergeRoots(opts, Append(SubSeq(roots, 1, Len(roots) - 2), node),
                          Append(nodes, node), closeUp)

\* gen.next(data, nodes); gen = [roots, blocks, nodes]
GenNext(opts, gen, data) ==
  LET index == 2 * gen.blocks
      leaf == [index |-> index, parent |-> FlatParent(index), hash |-> "", data |-> data]
      hashed == [leaf EXCEPT !.hash = LeafHash(opts, leaf)]
      merged == MergeRoots(opts, Append(gen.roots, hashed), Append(gen.nodes, hashed), FALSE)
  IN [roots |-> merged.roots, blocks |-> gen.blocks + 1, nodes |-> merged.nodes]

\* gen.next(MerkleGenerator.CLOSE_UP, nodes)
GenCloseUp(opts, gen) ==
  LET merged == MergeRoots(opts, gen.roots, gen.nodes, TRUE)
  IN [roots |-> merged.roots, blocks |-> gen.blocks, nodes |-> merged.nodes]

NewGenerator == [roots |-> <<>>, blocks |-> 0, nodes |-> <<>>]

-----------------------------------------------------------------------------
(* Embedded media (@tradle/embed).  The URIs the model knows.             *)

\* buffer.toString('hex'): the hex text of the bytes
toHex(bytes) == "hex:" \o bytes

\* a keeper URI whose hash is a keeper URI again
KeeperUriHash_Chained ==
  ("tradle-keeper://deadbeef?mime=image/png" :> "tradle-keeper://deadbeef")
    @@ ("tradle-keeper://deadbeef" :> "deadbeef")

KeeperUriHash == ("tradle-keeper://deadbeef?mime=image/png" :> "deadbeef")
DataUriBytes == ("data:image/png;base64,AAAA" :> "000000")
MalformedDataUris == {"data:"}

isKeeperUri(value) == value \in DOMAIN KeeperUriHash
parseKeeperUri(value) == [hash |-> KeeperUriHash[value]]
startsWithData(value) == value \in DOMAIN DataUriBytes \/ value \in MalformedDataUris
decodeDataURI(value) ==
  IF value \in DOMAIN DataUriBytes THEN Buf(DataUriBytes[value]) ELSE Threw("invalid data uri")

\* parseInt(semver.split('.')[0]) of the protocol versions the model knows
SemverMajor == ("4.0.0" :> 4) @@ ("5.0.0" :> 5) @@ ("5.1.0" :> 5)
getSemverMajor(semver) == SemverMajor[semver]
VERSION_BEFORE_PROTOCOL_VERSION_PROP == "4.0.0"

getHashHex(merkleOpts2, data) ==
  toHex(LeafHash(merkleOpts2, [data |-> data, index |-> 0, parent |-> 0]))

RECURSIVE normalizeValue(_, _)
\* the traverse(obj).forEach callback of normalizeEmbeddedMedia, at every depth
normalizeValue(merkleOpts2, value) ==
  CASE TypeOf(value) = "string" ->
         IF isKeeperUri(value[2]) THEN Str(parseKeeperUri(value[2]).hash)
         ELSE IF startsWithData(value[2])
              THEN LET buf == decodeDataURI(value[2])
                   IN IF IsError(buf) THEN value
                      ELSE Str(getHashHex(merkleOpts2, buf[2]))
              ELSE value
    [] TypeOf(value) = "array" ->
         Arr([i \in DOMAIN value[2] |-> normalizeValue(merkleOpts2, value[2][i])])
    [] TypeOf(value) = "object" ->
         Obj([order |-> value[2].order,
              at |-> [k \in DOMAIN value[2].at |-> normalizeValue(merkleOpts2, value[2].at[k])]])
    [] OTHER -> value

normalizeEmbeddedMedia(obj, merkleOpts) ==
  normalizeValue(getMerkleOpts(merkleOpts), Obj(obj))[2]

preProcessForMerklization(obj, merkleOpts) ==
  LET protocolVersion ==
        IF exists(Get(obj, PROTOCOL_VERSION)) THEN Get(obj, PROTOCOL_VERSION)[2]
        ELSE VERSION_BEFORE_PROTOCOL_VERSION_PROP
      major == getSemverMajor(protocolVersion)
  IN IF major > 4 THEN normalizeEmbeddedMedia(obj, merkleOpts) ELSE obj

\* the major version preProcessForMerklization reads from the object
protocolMajor(obj) ==
  getSemverMajor(IF exists(Get(obj, PROTOCOL_VERSION)) THEN Get(obj, PROTOCOL_VERSION)[2]
                 ELSE VERSION_BEFORE_PROTOCOL_VERSION_PROP)

\* the same call, but traversing the caller's object without cloneDeep
preProcessCall_NoClone(obj, merkleOpts) ==
  [returned |-> preProcessForMerklization(obj, merkleOpts),
   same |-> TRUE,
   argument |-> preProcessForMerklization(obj, merkleOpts)]

\* A call of preProcessForMerklization as its caller sees it: the object
\* returned, whether it is the very object passed in, and the object passed
\* in as it is after the call.  Above the threshold the traversal updates
\* the cloneDeep copy in place, so the caller's object keeps its values.
preProcessCall(obj, merkleOpts) ==
  [returned |-> preProcessForMerklization(obj, merkleOpts),
   same |-> ~(protocolMajor(obj) > 4),
   argument |-> obj]

-----------------------------------------------------------------------------
(* The Merkle tree of an object *)

ensureUnsigned(obj) == IF Has(obj, SIG) THEN Threw("expected unsigned object") ELSE [ok |-> TRUE]

\* the position among the leaves taken for the flat-tree index
getIndices_LeafPositions(obj, keys) ==
  [k \in Range(keys) |->
     LET n == CHOOSE i \in DOMAIN keys : keys[i] = k
     IN [key |-> 2 * (n - 1), value |-> 2 * (n - 1) + 1]]

getIndices(obj, keys) ==
  [k \in Range(keys) |->
     LET n == CHOOSE i \in DOMAIN keys : keys[i] = k
     IN [key |-> FlatIndex(0, 2 * (n - 1)), value |-> FlatIndex(0, 2 * (n - 1) + 1)]]

RECURSIVE FeedKeys(_, _, _, _, _)
\* for (const key of keys) { gen.next(stringify(key)); gen.next(stringify(processed[key])) }
FeedKeys(opts, gen, keys, processed, i) ==
  IF i > Len(keys) THEN gen
  ELSE LET g1 == GenNext(opts, gen, stringify(Str(keys[i])))
           g2 == GenNext(opts, g1, stringify(processed.at[keys[i]]))
       IN FeedKeys(opts, g2, keys, processed, i + 1)

\* the tree of the nodes the generator made
TreeOfNodes(obj, keys, gen) ==
  [nodes |-> Sort(gen.nodes, byIndexSort),
   roots |-> gen.roots,
   indices |-> getIndices(obj, keys)]

createMerkleTree(obj, opts) ==
  Try(ensureUnsigned(obj),
    LET merkleOpts == getMerkleOpts(opts)
        processed == preProcessForMerklization(obj, merkleOpts)
    IN CHOOSE tree \in
         {TreeOfNodes(obj, keys,
                      GenCloseUp(merkleOpts, FeedKeys(merkleOpts, NewGenerator, keys, processed, 1))) :
            keys \in {getKeysSorted(obj)}} : TRUE)

getMerkleRoot(tree) ==
  IF Len(tree.roots) = 0 THEN Threw("No root found in tree.") ELSE tree.roots[1].hash

TreeRootHash(tree) == Try(tree, getMerkleRoot(tree))
computeMerkleRoot(obj, opts) == TreeRootHash(createMerkleTree(obj, getMerkleOpts(opts)))

getLeaves(nodes) == SelectKeys(nodes, {n \in Range(nodes) : n.index % 2 = 0})

-----------------------------------------------------------------------------
(* Proofs (merkle-proofs): the proof of a set of leaves holds, for every   *)
(* node on the way from a leaf to the root, the sibling of that node, and  *)
(* the root last.  The verifier hashes the leaf and climbs to the root.    *)

MiniNode(n) == [index |-> n.index, hash |-> n.hash]
HasIndex(nodes, i) == \E k \in DOMAIN nodes : nodes[k].index = i
NodeAt(nodes, i) == nodes[CHOOSE k \in DOMAIN nodes : nodes[k].index = i]
TreeRoot(nodes) == NodeAt(nodes, CHOOSE i \in {n.index : n \in Range(nodes)} :
                                   ~HasIndex(nodes, FlatParent(i)))

RECURSIVE SiblingsToRoot(_, _, _)
SiblingsToRoot(nodes, rootIndex, i) ==
  IF i = rootIndex \/ FlatDepth(i) >= FlatDepth(rootIndex) THEN {}
  ELSE (IF HasIndex(nodes, FlatSibling(i)) THEN {FlatSibling(i)} ELSE {})
       \cup SiblingsToRoot(nodes, rootIndex, FlatParent(i))

RECURSIVE SetToSortedSeq(_)
SetToSortedSeq(S) ==
  IF S = {} THEN <<>>
  ELSE LET m == CHOOSE x \in S : \A y \in S : x <= y
       IN <<m>> \o SetToSortedSeq(S \ {m})

\* new MerkleProofGenerator(nodes), add(leaf) for each leaf, proof()
ProofGenerator(nodes, leaves) ==
  LET root == TreeRoot(nodes)
      needed == UNION {SiblingsToRoot(nodes, root.index, leaves[k].index) : k \in DOMAIN leaves}
      sorted == SetToSortedSeq(needed)
  IN [p \in DOMAIN sorted |-> MiniNode(NodeAt(nodes, sorted[p]))] \o <<MiniNode(root)>>

RECURSIVE Climb(_, _, _, _)
Climb(vopts, siblings, root, cur) ==
  IF cur.index = root.index THEN cur.hash = root.hash
  ELSE IF FlatDepth(cur.index) >= FlatDepth(root.index) THEN FALSE
  ELSE IF HasIndex(siblings, FlatSibling(cur.index))
       THEN LET sibling == NodeAt(siblings, FlatSibling(cur.index))
                left == IF cur.index < sibling.index THEN cur ELSE sibling
                right == IF cur.index < sibling.index THEN sibling ELSE cur
            IN Climb(vopts, siblings, root,
                     [index |-> FlatParent(cur.index), hash |-> ParentHash(vopts, left, right)])
       ELSE Climb(vopts, siblings, root, [index |-> FlatParent(cur.index), hash |-> cur.hash])

\* createVerifier(vopts)(node)
Verifier(vopts, node) ==
  LET proof == vopts.proof
      root == proof[Len(proof)]
  IN Climb(vopts, SubSeq(proof, 1, Len(proof) - 1), root,
           [index |-> node.index, hash |-> LeafHash(vopts, node)])

\* a loop over the leaves that stops one leaf early
prove_SkipsLastLeaf(opts) ==
  ProofGenerator(opts.nodes, SubSeq(opts.leaves, 1, Len(opts.leaves) - 1))

prove(opts) == ProofGenerator(opts.nodes, opts.leaves)

verifyProof(opts) ==
  Verifier(getMerkleVerifierOpts([proof |-> opts.proof]), opts.node)

\* prover(object, opts).add(entry): the leaves after the call
proverAdd(tree, leaves, entry) ==
  LET propNodes == tree.indices[entry.property]
      withKey == IF ok(entry.key) THEN Append(leaves, tree.nodes[propNodes.key + 1]) ELSE leaves
  IN IF ok(entry.value) THEN Append(withKey, tree.nodes[propNodes.value + 1]) ELSE withKey

-----------------------------------------------------------------------------
(* State *)

VARIABLES
  mobj,       \* the object a caller builds trees and proofs of
  mopts,      \* the leaf/parent functions that caller passes, if any
  mreordered, \* the same properties, inserted in another order
  mroots,     \* << >>, or <<merkleRoot(mobj), merkleRoot(mreordered)>>
  mtree,      \* << >>, or the tree of mobj
  mleaves,    \* the leaves chosen for the proof, in the order they were added
  mproof,     \* << >>, or the proof
  mverify     \* << >>, or the last verifyProof call and its result

VARIABLES
  chain,        \* the signed versions of one object, oldest first
  draft,        \* << >>, or the object createObject returned, not yet signed
  invalidDepth, \* which digests secp256k1.privateKeyVerify rejects
  call          \* << >>, or the call that reads the chain and its outcome

VARIABLES
  asyncified,   \* << >>, or the variables the function asyncify returned closes over
  eventLoop     \* the microtask queue, and what has been called and invoked so far

mvars == <<mobj, mopts, mreordered, mroots, mtree, mleaves, mproof, mverify>>
cvars == <<chain, draft, invalidDepth, call>>
avars == <<asyncified, eventLoop>>
vars == <<mvars, cvars, avars>>

\* nothing queued, nothing called
IdleLoop == [microtasks |-> <<>>, ran |-> FALSE, calls |-> <<>>, invoked |-> <<>>,
             returned |-> <<>>]

MaxProps == 3
MaxChosen == 1

Bool(b) == <<"boolean", b>>
NoOpts == <<>>
MerkleNames == {"a", "A", "b"}
MerkleValues == {Num(1), Str("a")}

OrderedNames(n) ==
  {s \in [1..n -> MerkleNames] : \A i, j \in 1..n : i # j => s[i] # s[j]}
MerkleObjects ==
  UNION {{[order |-> ks, at |-> vals] : vals \in [Range(ks) -> MerkleValues]} :
           ks \in UNION {OrderedNames(n) : n \in 1..MaxProps}}
Reorderings(o) ==
  {[order |-> ks, at |-> o.at] :
     ks \in {s \in OrderedNames(Len(o.order)) : Range(s) = Range(o.order)}}

InitMerkle ==
  /\ mobj \in MerkleObjects
  /\ mopts \in {NoOpts, PLAIN_MERKLE_OPTS}
  /\ mreordered = mobj
  /\ mroots = <<>>
  /\ mtree = <<>>
  /\ mleaves = <<>>
  /\ mproof = <<>>
  /\ mverify = <<>>
  /\ asyncified = <<>>
  /\ eventLoop = IdleLoop
  /\ chain = <<>>
  /\ draft = <<>>
  /\ invalidDepth = 0
  /\ call = <<>>

\* merkleRoot(obj, opts), of the object and of a copy built in another order
MerkleRoot ==
  /\ mroots = <<>>
  /\ mtree = <<>>
  /\ \E o2 \in Reorderings(mobj) :
       /\ mreordered' = o2
       /\ mroots' = <<computeMerkleRoot(mobj, mopts), computeMerkleRoot(o2, mopts)>>
  /\ UNCHANGED <<mobj, mopts, mtree, mleaves, mproof, mverify, cvars, avars>>

\* tree(obj, opts), also the first step of prover(obj, opts)
Tree ==
  /\ mroots = <<>>
  /\ mtree = <<>>
  /\ mtree' = createMerkleTree(mobj, getMerkleOpts(mopts))
  /\ UNCHANGED <<mobj, mopts, mreordered, mroots, mleaves, mproof, mverify, cvars, avars>>

\* prover(obj, opts).add({ property, key, value })
ProverAdd ==
  /\ mtree # <<>>
  /\ mproof = <<>>
  /\ Len(mleaves) < MaxChosen
  /\ \E property \in Range(mobj.order), key, value \in {UNDEFINED, Bool(TRUE), Bool(FALSE)} :
       mleaves' = proverAdd(mtree, mleaves, [property |-> property, key |-> key, value |-> value])
  /\ UNCHANGED <<mobj, mopts, mreordered, mroots, mtree, mproof, mverify, cvars, avars>>

\* builder.proof()
ProverProof ==
  /\ mtree # <<>>
  /\ mproof = <<>>
  /\ mproof' = prove([nodes |-> mtree.nodes, leaves |-> mleaves])
  /\ UNCHANGED <<mobj, mopts, mreordered, mroots, mtree, mleaves, mverify, cvars, avars>>

\* prove({ nodes: tree.nodes, leaves }) with leaves taken from tree.nodes
Prove ==
  /\ mtree # <<>>
  /\ mproof = <<>>
  /\ mleaves = <<>>
  /\ \E chosen \in SUBSET Range(getLeaves(mtree.nodes)) :
       /\ chosen # {}
       /\ Cardinality(chosen) <= MaxChosen + 1
       /\ mleaves' = SelectKeys(mtree.nodes, chosen)
       /\ mproof' = prove([nodes |-> mtree.nodes, leaves |-> mleaves'])
  /\ UNCHANGED <<mobj, mopts, mreordered, mroots, mtree, mverify, cvars, avars>>

\* verifyProof({ proof, node, ...opts })
VerifyProof ==
  /\ mproof # <<>>
  /\ \E node \in Range(getLeaves(mtree.nodes)), vopts \in {NoOpts, PLAIN_MERKLE_OPTS} :
       mverify' = <<[node |-> node, opts |-> vopts,
                     result |-> verifyProof([proof |-> mproof, node |-> node] @@ vopts)]>>
  /\ UNCHANGED <<mobj, mopts, mreordered, mroots, mtree, mleaves, mproof, cvars, avars>>

NextMerkle == MerkleRoot \/ Tree \/ ProverAdd \/ ProverProof \/ Prove \/ VerifyProof

SpecMerkle == InitMerkle /\ [][NextMerkle]_vars

-----------------------------------------------------------------------------
(* Claims about the Merkle tree *)

Chosen(index) == \E k \in DOMAIN mleaves : mleaves[k].index = index

\* C1: two objects with the same property names and values, built in
\* different insertion orders, have the same Merkle root, also when two
\* names differ only in letter case.
C1_RootIgnoresInsertionOrder == mroots # <<>> => mroots[1] = mroots[2]

\* C6: with the default hash functions, verifyProof is true for every leaf
\* chosen for the proof (through prove or through the prover builder) and
\* false for every other leaf of the tree.
C6_ProofRoundTrip ==
  (mverify # <<>> /\ mopts = NoOpts)
    => mverify[1].result = Chosen(mverify[1].node.index)

C6_Witness ==
  /\ mverify # <<>>
  /\ mopts = NoOpts
  /\ mverify[1].opts = NoOpts
  /\ Len(mobj.order) = 3
  /\ Len(mleaves) >= 2
  /\ mtree.indices[mobj.order[1]].value = 10
  /\ mverify[1].result = TRUE
  /\ mverify[1].node.index = 10

\* C7: a proof made from a tree built with caller-supplied leaf/parent
\* functions verifies, for every proven leaf, when verifyProof is given those
\* same functions; and verifyProof is true only when the functions it is
\* given are those the tree was built with.
C7_CustomHashProofVerifies ==
  mverify # <<>> =>
    /\ (mverify[1].opts = mopts /\ Chosen(mverify[1].node.index)) => mverify[1].result = TRUE
    /\ mverify[1].result = TRUE => mverify[1].opts = mopts

-----------------------------------------------------------------------------
(* Encodings.  The hex text of the bytes b is "hex:" followed by b; a text  *)
(* that is no hex text decodes to other bytes.  A digest is 32 bytes long.  *)

IsHex(text) == Len(text) >= 4 /\ SubSeq(text, 1, 4) = "hex:"
fromHex(text) ==
  IF IsHex(text) THEN SubSeq(text, 5, Len(text)) ELSE "unhex(" \o text \o ")"
toBase64(bytes) == "base64:" \o bytes

IsDigest(bytes) == Len(bytes) >= 7 /\ SubSeq(bytes, 1, 7) = "sha256("
ByteLength(bytes) == IF IsDigest(bytes) THEN 32 ELSE Len(bytes)

\* Buffer.isBuffer(input) ? input : Buffer.from(input, 'hex'); the bytes
toBuffer(input) == IF TypeOf(input) = "buffer" THEN input[2] ELSE fromHex(input[2])

\* The texts JSON.parse can read, and what it reads
ParsableObjects == {Put(EmptyObject, SIG, Str("c2ln"))}
JSONParse(text) ==
  IF \E o \in ParsableObjects : stringify(Obj(o)) = text
  THEN CHOOSE o \in ParsableObjects : stringify(Obj(o)) = text
  ELSE Threw("SyntaxError")

-----------------------------------------------------------------------------
(* lib/types.ts: the checks.  A check is Passed or Threw(...).             *)

Passed == [ok |-> TRUE]

ensureSigned(obj) ==
  IF TypeOf(Get(obj, SIG)) # "string" THEN Threw("expected signed object") ELSE Passed

ensureTyped(obj) ==
  IF TypeOf(Get(obj, TYPE)) # "string" THEN Threw("expected string _t") ELSE Passed

ensureTimestamp(obj) ==
  IF TypeOf(Get(obj, TIMESTAMP)) # "number" THEN Threw("expected number _time") ELSE Passed

\* object[TIMESTAMP] > prev[TIMESTAMP]; a comparison with undefined is false
ensureTimestampIncreased(object, prev) ==
  /\ TypeOf(Get(object, TIMESTAMP)) = "number"
  /\ TypeOf(Get(prev, TIMESTAMP)) = "number"
  /\ Get(object, TIMESTAMP)[2] > Get(prev, TIMESTAMP)[2]

\* (obj[VERSION] ?? 0) > 0
VersionOrZero(obj) == IF notExists(Get(obj, VERSION)) THEN 0 ELSE Get(obj, VERSION)[2]

isPermalinked(obj) ==
  /\ Has(obj, PERMALINK)
  /\ TypeOf(Get(obj, PERMALINK)) = "string"
  /\ TypeOf(Get(obj, PREVLINK)) = "string"
  /\ TypeOf(Get(obj, PREVHEADER)) = "string"
  /\ VersionOrZero(obj) > 0

isWitnessed(obj) == Has(obj, WITNESSES) /\ TypeOf(Get(obj, WITNESSES)) = "array"

isNotPermalinked(obj) ==
  /\ Get(obj, PREVLINK) = UNDEFINED
  /\ Get(obj, PREVHEADER) = UNDEFINED
  /\ (Get(obj, VERSION) = UNDEFINED \/ Get(obj, VERSION) = Num(0))

isCorrectlyPermalinked(obj) == isPermalinked(obj) \/ isNotPermalinked(obj)

ensureCorrectlyPermalinked(obj) ==
  IF ~isCorrectlyPermalinked(obj)
  THEN Threw("expected either _r, _p and _v > 0, or neither, and _v === 0")
  ELSE Passed

RECURSIVE HoldsUndefined(_)
\* traverse(val): val or a value at any depth under it is undefined
HoldsUndefined(val) ==
  CASE val = UNDEFINED -> TRUE
    [] TypeOf(val) = "array" -> \E i \in DOMAIN val[2] : HoldsUndefined(val[2][i])
    [] TypeOf(val) = "object" -> \E k \in DOMAIN val[2].at : HoldsUndefined(val[2].at[k])
    [] OTHER -> FALSE

\* only the object's own properties looked at
findPathWithUndefinedVal_OwnProperties(obj) == \E k \in DOMAIN obj.at : obj.at[k] = UNDEFINED

\* bad !== undefined
findPathWithUndefinedVal(obj) == HoldsUndefined(Obj(obj))

IDENTITY == "tradle.Identity"

ensureAuthor(obj) ==
  IF Get(obj, TYPE) = Str(IDENTITY) /\ notExists(Get(obj, VERSION))
  THEN IF exists(Get(obj, AUTHOR)) THEN Threw("unexpected property _author") ELSE Passed
  ELSE IF notExists(Get(obj, AUTHOR)) THEN Threw("expected property _author") ELSE Passed

ensureRequiredPropsBase(obj) ==
  Try(ensureTyped(obj),
      IF findPathWithUndefinedVal(obj) THEN Threw("must not have undefined values")
      ELSE Passed)

ensureRequiredPropsPreSign(obj) ==
  Try(ensureRequiredPropsBase(obj), Try(ensureCorrectlyPermalinked(obj), ensureTimestamp(obj)))

ensureRequiredProps(obj) == Try(ensureRequiredPropsPreSign(obj), ensureAuthor(obj))

createObjectInput(val) == Try(ensureUnsigned(val), ensureRequiredPropsBase(val))

signObjectInput(val) == Try(ensureUnsigned(val), ensureRequiredPropsPreSign(val))

signedObject(val) ==
  Try(ensureSigned(val), Try(ensureRequiredProps(val), ensureCorrectlyPermalinked(val)))

rawObject(val) ==
  Try(ensureUnsigned(val), Try(ensureRequiredProps(val), ensureCorrectlyPermalinked(val)))

\* typeforce.anyOf(ensureSigned, typeforce.Buffer), on a value
merkleRootOrObj(val) ==
  \/ TypeOf(val) = "buffer"
  \/ TypeOf(val) = "object" /\ ~IsError(ensureSigned(val[2]))

\* maybeDefined(signedObject) for prev, maybeDefined(merkleRootOrObj) for orig
entireCreateObjectInput(opts) ==
  Try(createObjectInput(opts.object),
  Try(IF opts.prev = UNDEFINED THEN Passed
      ELSE IF TypeOf(opts.prev) # "object" THEN Threw("expected signed prev")
      ELSE signedObject(opts.prev[2]),
      IF opts.orig # UNDEFINED /\ ~merkleRootOrObj(opts.orig) THEN Threw("expected signed orig")
      ELSE Passed))

chainPubKey(key) == key.curve = "secp256k1"

-----------------------------------------------------------------------------
(* Headers and links *)

\* lodash pick and omit
pick(obj, props) ==
  LET kept == SelectKeys(props, {k \in Range(props) : Has(obj, k)})
  IN [order |-> kept, at |-> [k \in Range(kept) |-> obj.at[k]]]
omit(obj, props) ==
  LET kept == SelectKeys(obj.order, Range(obj.order) \ Range(props))
  IN [order |-> kept, at |-> [k \in Range(kept) |-> obj.at[k]]]

\* for (const p in header) if (Buffer.isBuffer(val)) header[p] = val.toString('base64')
BuffersToBase64(header) ==
  [order |-> header.order,
   at |-> [p \in DOMAIN header.at |->
             IF TypeOf(header.at[p]) = "buffer"
             THEN Str(toBase64(header.at[p][2]))
             ELSE header.at[p]]]

getHeader(obj, props) == Try(ensureSigned(obj), BuffersToBase64(pick(obj, props)))

getSealHeader(obj) == getHeader(obj, HEADER_PROPS)
\* the link header taken for the whole header
getLinkHeader_WholeHeader(obj) == getHeader(obj, HEADER_PROPS)
getLinkHeader(obj) == getHeader(obj, LINK_HEADER_PROPS)
removeHeader(obj) == omit(obj, HEADER_PROPS)

\* headerHashFn(stringify(header), 'hex'): a text
hashHeader(header) == toHex(headerHashFn(stringify(Obj(header))))

\* a JavaScript string, or Threw
HashOfHeader(header) == Try(header, Str(hashHeader(header)))
getSealHeaderHash(object) == HashOfHeader(getSealHeader(object))

\* getLink(obj), enc = 'hex': a JavaScript string, or Threw
LinkOfSigned(signed) == Try(signed, HashOfHeader(getLinkHeader(signed)))
getLink(obj) ==
  IF TypeOf(obj) = "buffer" /\ ByteLength(obj[2]) = 32 THEN Str(toHex(obj[2]))
  ELSE LinkOfSigned(CASE TypeOf(obj) = "buffer" -> JSONParse(toHex(obj[2]))
                      [] TypeOf(obj) = "string" -> JSONParse(obj[2])
                      [] TypeOf(obj) = "object" -> obj[2]
                      [] OTHER -> Threw("TypeError"))

\* registerProtocol(obj), registerTimestamp(obj) with Date.now() = now
registerProtocol(obj) ==
  IF notExists(Get(obj, PROTOCOL_VERSION))
  THEN Put(obj, PROTOCOL_VERSION, Str(VERSION_BEFORE_PROTOCOL_VERSION_PROP))
  ELSE obj
registerTimestamp(obj, now) ==
  IF notExists(Get(obj, TIMESTAMP)) THEN Put(obj, TIMESTAMP, Num(now)) ELSE obj

\* if (link != null) obj[k] = getLink(link)
PutLink(obj, k, link) == Try(obj, Try(link, PutIfSet(obj, k, link)))
LinkIfGiven(v) == IF exists(v) THEN getLink(v) ELSE UNDEFINED
Registered(obj, now) ==
  Try(obj, Try(ensureCorrectlyPermalinked(obj), registerTimestamp(registerProtocol(obj), now)))

\* createObject(opts) with Date.now() = now: the object, or Threw
createObject(opts, now) ==
  Try(entireCreateObjectInput(opts),
      Registered(PutLink(PutLink(removeHeader(opts.object), PREVLINK, LinkIfGiven(opts.prev)),
                         PERMALINK, LinkIfGiven(opts.orig)), now))

-----------------------------------------------------------------------------
(* Signing.  An author is [name, sigPubKey, chainPubKey, permalink], with   *)
(* signError when its sign callback reports an error; the signature         *)
(* author.sign makes of a Merkle root is a text of both.                    *)

\* author.sign(merkleRoot, cb): err != null rejects; otherwise
\* utils.sigToString(utils.encodeSig({ pubKey: author.sigPubKey, sig }))
signMerkleRoot(opts) ==
  IF "signError" \in DOMAIN opts.author THEN Threw(opts.author.signError)
  ELSE Str(toBase64("ECSignature(" \o opts.author.name \o "," \o opts.merkleRoot \o ")"))

\* what promises.sign resolves to with the tree it built, or Threw
SignedWith(opts, tree) ==
  LET merkleRoot == getMerkleRoot(tree)
      sig == signMerkleRoot([author |-> opts.author, merkleRoot |-> merkleRoot])
  IN Try(sig, [tree |-> tree, merkleRoot |-> merkleRoot, sig |-> sig,
               object |-> Put(opts.object, SIG, sig)])

\* promises.sign(opts): [tree, merkleRoot, sig, object], or Threw; opts may
\* hold leaf and parent
sign(opts) ==
  Try(signObjectInput(opts.object),
      CHOOSE signed \in {SignedWith(opts, tree) :
                          tree \in {createMerkleTree(removeHeader(opts.object),
                                                     getMerkleOpts(opts))}} : TRUE)

\* the signature written into the caller's object, which is returned
signCall_SignsInPlace(opts) ==
  LET outcome == sign(opts)
  IN [outcome |-> outcome,
      object |-> IF IsError(outcome) THEN opts.object ELSE outcome.object]

\* a call of promises.sign as its caller sees it: what it resolves to or
\* rejects with, and opts.object after it; { ...object, [SIG]: sig } is a new
\* object and nothing writes opts.object
signCall(opts) == [outcome |-> sign(opts), object |-> opts.object]

\* utils.getSigKey(msg, sig): schema.ECSignature.decode(sigToBuf(sig)), then
\* verify(key, msg, parsed.sig) ? key : undefined; a key is <<"key", public key>>
Signers == {[name |-> n, sigPubKey |-> [curve |-> "p256", pub |-> SetToBag({n \o "-sig"})]] :
              n \in {"alice", "bob"}}
IsECSignature(sig) ==
  /\ TypeOf(sig) = "string"
  /\ Len(sig[2]) >= 19
  /\ SubSeq(sig[2], 1, 19) = "base64:ECSignature("
utilsGetSigKey(msg, sig) ==
  IF ~IsECSignature(sig) THEN Threw("decode")
  ELSE IF \E s \in Signers : sig = signMerkleRoot([author |-> s, merkleRoot |-> msg])
       THEN <<"key", (CHOOSE s \in Signers :
                        sig = signMerkleRoot([author |-> s, merkleRoot |-> msg])).sigPubKey>>
       ELSE UNDEFINED

\* toMerkleRoot(object, opts) of an object
toMerkleRoot(merkleRootOrObject, opts) == computeMerkleRoot(removeHeader(merkleRootOrObject), opts)

\* types.ensureGetSigKeyOpts(opts), then the key of the signature or undefined
getSigKey(opts) ==
  Try(signedObject(opts.object),
      \* the body of a signed object is unsigned and not empty: it has a root
      LET merkleRoot == toMerkleRoot(opts.object, opts)
      IN utilsGetSigKey(merkleRoot, Get(opts.object, SIG)))

\* the root computed with the default hash functions whatever opts holds
verifySig_DefaultHashOnly(opts) ==
  \E key \in {getSigKey([object |-> opts.object])} : ~IsError(key) /\ exists(key)

\* try { return !(getSigKey(opts) == null) } catch (err) { return false }
verifySig(opts) == \E key \in {getSigKey(opts)} : ~IsError(key) /\ exists(key)

\* typeforce.object({ a: typeforce.String, s: typeforce.String }), on a value
ensureWitness(witness) ==
  IF /\ TypeOf(witness) = "object"
     /\ TypeOf(Get(witness[2], "a")) = "string"
     /\ TypeOf(Get(witness[2], "s")) = "string"
  THEN Passed
  ELSE Threw("Expected property of type String")

\* Object.assign(removeHeader(object), { [SIG]: witness.s }), or Threw
fromWitness(object, witness) ==
  Try(ensureWitness(witness), Put(removeHeader(object), SIG, Get(witness[2], "s")))

\* witnesses.map(witness => fromWitness({ object, witness })): the array of
\* the objects, or what the first failing fromWitness threw
getWitnesses(object) ==
  LET witnesses == Get(object, WITNESSES)
  IN IF notExists(witnesses) THEN Arr(<<>>)
     ELSE IF TypeOf(witnesses) # "array" THEN Threw("witnesses.map is not a function")
     ELSE LET mapped == [i \in DOMAIN witnesses[2] |-> fromWitness(object, witnesses[2][i])]
              failed == {i \in DOMAIN mapped : IsError(mapped[i])}
          IN IF failed = {} THEN Arr(mapped)
             ELSE mapped[CHOOSE i \in failed : \A j \in failed : i <= j]

\* only the first witness is verified
verifyWitnesses_FirstOnly(opts) ==
  LET witnessed == getWitnesses(opts.object)
  IN Try(witnessed,
         Bool(witnessed[2] = <<>> \/ verifySig([object |-> witnessed[2][1]])))

\* getWitnesses(object).every(witnessed => verifySig({ object: witnessed, verify })):
\* a boolean value, or Threw
verifyWitnesses(opts) ==
  LET witnessed == getWitnesses(opts.object)
  IN Try(witnessed,
         Bool(\A i \in DOMAIN witnessed[2] : verifySig([object |-> witnessed[2][i]])))

\* wrapWitnessSig(opts): ensureWitness(opts), then { a: opts.author, s: opts.sig }
wrapWitnessSig(opts) ==
  Try(ensureWitness(opts),
      Obj(Put(Put(EmptyObject, "a", Get(opts[2], "author")), "s", Get(opts[2], "sig"))))

\* unwrapWitnessSig(opts): ensureWitness(opts), then { author: opts.a, sig: opts.s }
unwrapWitnessSig(opts) ==
  Try(ensureWitness(opts),
      Obj(Put(Put(EmptyObject, "author", Get(opts[2], "a")), "sig", Get(opts[2], "s"))))

\* promises.signAsWitness(opts): the object with one more witness, or Threw
\* witnesses.push({ a: permalink, s: result.sig }); { ...object, [WITNESSES]: witnesses }
WithWitness(object, permalink, result) ==
  LET witnesses == IF isWitnessed(object) THEN Get(object, WITNESSES)[2] ELSE <<>>
      witness == Put(Put(EmptyObject, "a", permalink), "s", result.sig)
  IN Try(result, Put(object, WITNESSES, Arr(Append(witnesses, Obj(witness)))))

signAsWitness(opts) ==
  Try(ensureSigned(opts.object),
      IF notExists(opts.permalink)
      THEN Threw("expected string permalink of signer's identity")
      ELSE WithWitness(opts.object, opts.permalink,
                       sign([author |-> opts.author, object |-> removeHeader(opts.object)])))

\* A call of promises.signAsWitness as its caller sees it: what it resolves
\* to or rejects with, and opts.object after it.  witnesses is
\* object[WITNESSES] itself when the object is witnessed, and push writes it:
\* the caller's object then holds the new witness too.
signAsWitnessCall(opts) ==
  LET outcome == signAsWitness(opts)
  IN [outcome |-> outcome,
      object |-> IF ~IsError(outcome) /\ isWitnessed(opts.object)
                 THEN Put(opts.object, WITNESSES, Get(outcome, WITNESSES))
                 ELSE opts.object]

-----------------------------------------------------------------------------
(* Version chain validation.  prev and orig are JavaScript values.         *)

\* if (given !== computed) throw, where computing may have thrown
MustEqual(given, computed, message) ==
  Try(computed, IF given # computed THEN Threw(message) ELSE Passed)
SealHeaderHashOf(prev) ==
  IF TypeOf(prev) = "object" THEN getSealHeaderHash(prev[2]) ELSE Threw("expected signed object")
PermalinkOf(prev) == IF TypeOf(prev) = "object" THEN Get(prev[2], PERMALINK) ELSE UNDEFINED

\* the permalink of prev is never looked at
validatePrevVersioning_AnyPrevPermalink(object, prev) ==
  LET prevLink == Get(object, PREVLINK)
      prevHeader == Get(object, PREVHEADER)
  IN IF notExists(prev) THEN Threw("expected prev")
     ELSE IF notExists(prevLink) THEN Threw("expected object._p")
     ELSE Try(MustEqual(prevLink, getLink(prev), "object._p and prev don't match"),
          IF notExists(prevHeader) THEN Threw("expected object._ph to be set.")
          ELSE MustEqual(prevHeader, SealHeaderHashOf(prev),
                         "expected object._ph to equal the header hash of prev"))

validatePrevVersioning(object, prev) ==
  LET prevLink == Get(object, PREVLINK)
      prevHeader == Get(object, PREVHEADER)
      permalink == Get(object, PERMALINK)
      \* types.ensureTimestampIncreased(object, prev): nothing reads what it returns
      increased == ensureTimestampIncreased(object, prev[2])
  IN IF notExists(prev) THEN Threw("expected prev")
     ELSE IF notExists(prevLink) THEN Threw("expected object._p")
     ELSE Try(MustEqual(prevLink, getLink(prev), "object._p and prev don't match"),
          IF notExists(prevHeader) THEN Threw("expected object._ph to be set.")
          ELSE Try(MustEqual(prevHeader, SealHeaderHashOf(prev),
                             "expected object._ph to equal the header hash of prev"),
               IF exists(PermalinkOf(prev)) /\ PermalinkOf(prev) # permalink
               THEN Threw("expected object._r === prev._r")
               ELSE Passed))

\* the permalink is looked for, but not compared with orig
validateOrigVersioning_AnyPermalink(object, orig) ==
  IF notExists(Get(object, PERMALINK)) THEN Threw("expected object._r")
  ELSE IF notExists(orig) THEN Threw("expected orig")
  ELSE Passed

validateOrigVersioning(object, orig) ==
  LET permalink == Get(object, PERMALINK)
  IN IF notExists(permalink) THEN Threw("expected object._r")
     ELSE IF notExists(orig) THEN Threw("expected orig")
     ELSE MustEqual(permalink, IF TypeOf(orig) = "string" THEN orig ELSE getLink(orig),
                    "expected object._r === orig")

\* prev and orig are validated only when they are given
validateVersioning_OnlyWhatIsGiven(opts) ==
  LET object == opts.object
      expectsZero == ~(\/ exists(Get(object, PREVLINK))
                       \/ exists(opts.prev)
                       \/ exists(Get(object, PERMALINK))
                       \/ exists(opts.orig))
      isZero == notExists(Get(object, VERSION)) \/ Get(object, VERSION) = Num(0)
  IN IF isZero
     THEN IF ~expectsZero THEN Threw("expected object._v to be non-zero") ELSE Passed
     ELSE IF expectsZero THEN Threw("expected object._v to be 0")
     ELSE Try(IF exists(opts.prev) THEN validatePrevVersioning(object, opts.prev) ELSE Passed,
              IF exists(opts.orig) THEN validateOrigVersioning(object, opts.orig) ELSE Passed)

\* validateVersioning({ object, prev, orig }): Passed, or Threw
validateVersioning(opts) ==
  LET object == opts.object
      expectsZero == ~(\/ exists(Get(object, PREVLINK))
                       \/ exists(opts.prev)
                       \/ exists(Get(object, PERMALINK))
                       \/ exists(opts.orig))
      isZero == notExists(Get(object, VERSION)) \/ Get(object, VERSION) = Num(0)
  IN IF isZero
     THEN IF ~expectsZero
          THEN Threw("expected object._v to be non-zero with prev/orig present.")
          ELSE Passed
     ELSE IF expectsZero
          THEN Threw("expected object._v to be 0 if neither object._p nor object._r is set.")
     ELSE Try(validatePrevVersioning(object, opts.prev),
              validateOrigVersioning(object, opts.orig))

-----------------------------------------------------------------------------
(* The next version of a signed object.  A links record holds UNDEFINED    *)
(* for each property the returned object does not carry.                   *)

NoLinks == [link |-> UNDEFINED, permalink |-> UNDEFINED, prevLink |-> UNDEFINED]

\* the typeforce.String properties of types.ensureLinkWrapper
LinkWrapperStrings(wrapper) ==
  \A given \in {wrapper.link, wrapper.permalink, wrapper.prevLink} :
    given = UNDEFINED \/ TypeOf(given) = "string"

\* types.ensureLinkWrapper(wrapper)
ensureLinkWrapper(wrapper) ==
  IF ~LinkWrapperStrings(wrapper) THEN Threw("TypeError")
  ELSE IF wrapper.object = UNDEFINED THEN Passed
  ELSE IF TypeOf(wrapper.object) # "object" THEN Threw("TypeError")
  ELSE signedObject(wrapper.object[2])

\* a ?? b
Coalesce(a, b) == IF exists(a) THEN a ELSE b

\* the links found once the wrapper has passed its type check
LinksOf(wrapper, link) ==
  LET object == wrapper.object
      links == [link |-> link,
                permalink |-> Coalesce(wrapper.permalink,
                                IF exists(object)
                                THEN Coalesce(Get(object[2], PERMALINK), link)
                                ELSE UNDEFINED),
                prevLink |-> Coalesce(wrapper.prevLink,
                                IF exists(object) THEN Get(object[2], PREVLINK)
                                ELSE UNDEFINED)]
  IN IF exists(links.prevLink)
     THEN IF notExists(links.permalink) THEN Threw("expected \"permalink\"") ELSE links
     ELSE IF exists(link) THEN [NoLinks EXCEPT !.link = link]
     ELSE NoLinks

\* getLinks(wrapper): [link, permalink, prevLink], or Threw
getLinks(wrapper) ==
  Try(ensureLinkWrapper(wrapper),
      LET link == Coalesce(wrapper.link,
                           IF notExists(wrapper.object) THEN UNDEFINED
                           ELSE getLink(wrapper.object))
      IN Try(link, LinksOf(wrapper, link)))

\* scaffoldNextVersion(object, links) with Date.now() = now
scaffoldNextVersion(object, links, now) ==
  LET found == getLinks([object |-> Obj(object), link |-> links.link,
                         permalink |-> links.permalink, prevLink |-> links.prevLink])
      headerHash == getSealHeaderHash(object)
  IN Try(found, Try(headerHash,
       Put(Put(Put(Put(Put(EmptyObject,
         PREVLINK, found.link),
         PERMALINK, found.permalink),
         PREVHEADER, headerHash),
         VERSION, Num(VersionOrZero(object) + 1)),
         TIMESTAMP, Num(now))))

\* nextVersion(object, link) with Date.now() = now
nextVersion(object, link, now) ==
  LET scaffold == scaffoldNextVersion(object, [NoLinks EXCEPT !.link = link], now)
  IN Try(scaffold, Assign(removeHeader(object), scaffold))

-----------------------------------------------------------------------------
(* Seal keys.  A point of the curve is the bag of the scalars whose        *)
(* multiples of the generator add up to it: adding points adds bags, and   *)
(* two sums are equal when they add up the same scalars.                    *)

CURVE == "secp256k1"

RECURSIVE HashDepth(_)
\* how many times sha256 was applied to get these bytes
HashDepth(bytes) ==
  IF IsDigest(bytes) THEN 1 + HashDepth(SubSeq(bytes, 8, Len(bytes) - 1)) ELSE 0

\* secp256k1.privateKeyVerify(priv): a digest is a valid private key unless
\* it is zero or not below the order of the curve
privateKeyVerify(priv) == ~IsDigest(priv) \/ HashDepth(priv) > invalidDepth

RECURSIVE RehashUntilValid(_)
\* while (!secp256k1.privateKeyVerify(priv)) priv = sha256(priv)
RehashUntilValid(priv) ==
  IF privateKeyVerify(priv) THEN priv ELSE RehashUntilValid(sha256(priv))

\* the loop moved into the if before it: a 32-byte input is never re-hashed
toPrivateKey_RehashOnlyResized(priv) ==
  LET bytes == IF TypeOf(priv) = "string" THEN toBuffer(priv) ELSE priv[2]
  IN IF ByteLength(bytes) # 32 THEN RehashUntilValid(sha256(bytes)) ELSE bytes

toPrivateKey(priv) ==
  LET bytes == IF TypeOf(priv) = "string" THEN toBuffer(priv) ELSE priv[2]
      sized == IF ByteLength(bytes) # 32 THEN sha256(bytes) ELSE bytes
  IN RehashUntilValid(sized)

privToPub(priv) == [curve |-> CURVE, pub |-> SetToBag({priv})]

pubKeyFromHeaderHash(hash) == privToPub(toPrivateKey(hash))

\* headerHashFn(toBuffer(headerHash, 'hex'), 'hex'): a JavaScript string
iterateHeaderHash(headerHash) == Str(toHex(headerHashFn(toBuffer(headerHash))))

prevPubKeyFromHeaderHash(headerHash) == pubKeyFromHeaderHash(iterateHeaderHash(headerHash))

pubKeyFromObject(object) == pubKeyFromHeaderHash(Str(hashHeader(getSealHeader(object))))

\* lib/utils.ts
publicKeyCombineEach(a, b) ==
  IF a.curve # b.curve THEN Threw("Can not combine curves, curves of different type.")
  ELSE [curve |-> a.curve, pub |-> a.pub (+) b.pub]

publicKeyCombine(keys) == publicKeyCombineEach(keys[1], keys[2])

ecPubKeysAreEqual(a, b) == a.curve = b.curve /\ a.pub = b.pub

\* lib/types.ts: the checks of the seal options
ensureCalcSealOpts(opts) ==
  IF /\ chainPubKey(opts.basePubKey)
     /\ \/ "object" \in DOMAIN opts /\ ~IsError(ensureSigned(opts.object))
        \/ "headerHash" \in DOMAIN opts /\ TypeOf(opts.headerHash) = "string"
  THEN Passed ELSE Threw("TfTypeError")

ensureCalcSealPrevOpts(opts) ==
  IF /\ chainPubKey(opts.basePubKey)
     /\ \/ /\ "object" \in DOMAIN opts
           /\ ~IsError(ensureSigned(opts.object))
           /\ isPermalinked(opts.object)
        \/ "prevHeaderHash" \in DOMAIN opts /\ TypeOf(opts.prevHeaderHash) = "string"
  THEN Passed ELSE Threw("TfTypeError")

ensureVerifySealPubKeyOpts(opts) ==
  IF /\ ~IsError(ensureSigned(opts.object))
     /\ chainPubKey(opts.basePubKey)
     /\ chainPubKey(opts.sealPubKey)
  THEN Passed ELSE Threw("TfTypeError")

ensureVerifySealPrevPubKeySeal(opts) ==
  IF chainPubKey(opts.sealPrevPubKey) THEN Passed ELSE Threw("TfTypeError")

\* the key, or Threw
calcSealPubKey(opts) ==
  Try(ensureCalcSealOpts(opts),
      publicKeyCombine(<<opts.basePubKey,
        pubKeyFromHeaderHash(IF "headerHash" \in DOMAIN opts THEN opts.headerHash
                             ELSE Str(hashHeader(getSealHeader(opts.object))))>>))

\* the object's link to the previous version taken for its header hash
calcSealPrevPubKey_FromPrevLink(opts) ==
  Try(ensureCalcSealPrevOpts(opts),
      publicKeyCombine(<<opts.basePubKey,
        prevPubKeyFromHeaderHash(IF "prevHeaderHash" \in DOMAIN opts THEN opts.prevHeaderHash
                                 ELSE Get(opts.object, PREVLINK))>>))

calcSealPrevPubKey(opts) ==
  Try(ensureCalcSealPrevOpts(opts),
      publicKeyCombine(<<opts.basePubKey,
        prevPubKeyFromHeaderHash(IF "prevHeaderHash" \in DOMAIN opts THEN opts.prevHeaderHash
                                 ELSE Get(opts.object, PREVHEADER))>>))

\* true, false, or Threw
\* utils.ecPubKeysAreEqual(expected, seal), where computing expected may have thrown
SealIsExpected(expected, seal) == Try(expected, Bool(ecPubKeysAreEqual(expected, seal)))

\* the object's key compared with the seal, the base key left out
verifySealPubKey_WithoutBase(opts) ==
  Try(ensureVerifySealPubKeyOpts(opts),
      SealIsExpected(pubKeyFromObject(opts.object), opts.sealPubKey))

verifySealPubKey(opts) ==
  Try(ensureVerifySealPubKeyOpts(opts),
      SealIsExpected(publicKeyCombine(<<opts.basePubKey, pubKeyFromObject(opts.object)>>),
                     opts.sealPubKey))

verifySealPrevPubKey(opts) ==
  Try(ensureVerifySealPrevPubKeySeal(opts),
      SealIsExpected(calcSealPrevPubKey(opts), opts.sealPrevPubKey))

-----------------------------------------------------------------------------
(* The version chain: the callers and their inputs.  A call that only     *)
(* reads the chain (validateVersioning, the seal functions) changes no     *)
(* object: the model follows the chain up to such a call and records it.   *)

MaxVersions == 2
MaxTime == 2
MaxWitnesses == 1
MaxRehash == 1

Times == 1..MaxTime

\* test/index.ts newPerson(): a signing key on p256, a chain key on secp256k1
Person(name) ==
  [name |-> name,
   sigPubKey |-> [curve |-> "p256", pub |-> SetToBag({name \o "-sig"})],
   chainPubKey |-> [curve |-> CURVE, pub |-> SetToBag({name \o "-chain"})],
   permalink |-> Str(toHex(sha256(name)))]

bob == Person("bob")
alice == Person("alice")
BaseKeys == {alice.chainPubKey, bob.chainPubKey, alice.sigPubKey}

OtherLink == Str(toHex(sha256("other")))

FirstRaws ==
  {PutIfSet(PutIfSet(
     Put(Put(Put(EmptyObject, "a", Num(1)), TYPE, Str("something")), AUTHOR, bob.permalink),
     VERSION, v), TIMESTAMP, t) :
     v \in {UNDEFINED, Num(0)}, t \in {UNDEFINED} \cup {Num(n) : n \in Times}}

Last(s) == s[Len(s)]
Witnesses(obj) == IF isWitnessed(obj) THEN Get(obj, WITNESSES)[2] ELSE <<>>

InitChain ==
  /\ chain = <<>>
  /\ draft = <<>>
  /\ call = <<>>
  /\ mobj = EmptyObject
  /\ mopts = NoOpts
  /\ mreordered = EmptyObject
  /\ mroots = <<>>
  /\ mtree = <<>>
  /\ mleaves = <<>>
  /\ mproof = <<>>
  /\ mverify = <<>>
  /\ asyncified = <<>>
  /\ eventLoop = IdleLoop

\* protocol.object({ object }) for a first version
CreateObject ==
  /\ call = <<>>
  /\ chain = <<>>
  /\ draft = <<>>
  /\ \E raw \in FirstRaws, now \in Times :
       LET created == createObject([object |-> raw, prev |-> UNDEFINED, orig |-> UNDEFINED], now)
       IN /\ ~IsError(created)
          /\ draft' = <<created>>
  /\ UNCHANGED <<chain, invalidDepth, call, mvars, avars>>

\* protocol.object({ object, prev, orig }) for the version after the last
\* one, its links set by the caller as test 'seals' sets them
CreateNextObject ==
  /\ call = <<>>
  /\ chain # <<>>
  /\ Len(chain) < MaxVersions
  /\ draft = <<>>
  /\ \E t \in Times, now \in Times :
       LET prev == Last(chain)
           orig == chain[1]
           raw == Put(Put(Put(Put(Put(omit(prev, <<SIG>>),
                    VERSION, Num(VersionOrZero(prev) + 1)),
                    PREVLINK, getLink(Obj(prev))),
                    PERMALINK, getLink(Obj(orig))),
                    PREVHEADER, getSealHeaderHash(prev)),
                    TIMESTAMP, Num(t))
           created == createObject([object |-> raw, prev |-> Obj(prev), orig |-> Obj(orig)], now)
       IN /\ ~IsError(created)
          /\ draft' = <<created>>
  /\ UNCHANGED <<chain, invalidDepth, call, mvars, avars>>

\* protocol.promises.sign({ object, author })
Sign ==
  /\ call = <<>>
  /\ draft # <<>>
  /\ LET result == sign([author |-> bob, object |-> draft[1]])
     IN /\ ~IsError(result)
        /\ chain' = Append(chain, result.object)
  /\ draft' = <<>>
  /\ UNCHANGED <<invalidDepth, call, mvars, avars>>

\* protocol.promises.signAsWitness({ object, author, permalink }) of the
\* last version
SignAsWitness ==
  /\ call = <<>>
  /\ chain # <<>>
  /\ draft = <<>>
  /\ Len(Witnesses(Last(chain))) < MaxWitnesses
  /\ LET witnessed == signAsWitness([object |-> Last(chain), author |-> alice,
                                     permalink |-> alice.permalink])
     IN /\ ~IsError(witnessed)
        /\ chain' = [chain EXCEPT ![Len(chain)] = witnessed]
  /\ UNCHANGED <<draft, invalidDepth, call, mvars, avars>>

\* the values a caller may give a link property of the object it validates
LinkInputs(right) == {UNDEFINED, right, OtherLink}

\* protocol.validateVersioning({ object, prev, orig })
ValidateVersioning ==
  /\ call = <<>>
  /\ chain # <<>>
  /\ \E k \in DOMAIN chain :
       \E version \in {UNDEFINED} \cup {Num(n) : n \in 0..(MaxVersions - 1)},
          prevLink \in LinkInputs(getLink(Obj(chain[k]))),
          prevHeader \in LinkInputs(getSealHeaderHash(chain[k])),
          permalink \in LinkInputs(getLink(Obj(chain[1]))),
          t \in Times,
          prev \in {UNDEFINED, Obj(chain[k])},
          orig \in {UNDEFINED, Obj(chain[1]), getLink(Obj(chain[1]))} :
         LET object == PutIfSet(PutIfSet(PutIfSet(PutIfSet(
                         Put(Put(EmptyObject, "a", Num(2)), TIMESTAMP, Num(t)),
                         VERSION, version), PREVLINK, prevLink),
                         PREVHEADER, prevHeader), PERMALINK, permalink)
             result == validateVersioning([object |-> object, prev |-> prev, orig |-> orig])
         IN call' = <<[op |-> "validateVersioning", object |-> object, prev |-> prev,
                       orig |-> orig, threw |-> IsError(result), result |-> result]>>
  /\ UNCHANGED <<chain, draft, invalidDepth, mvars, avars>>

NextVersioning == CreateObject \/ CreateNextObject \/ Sign \/ SignAsWitness \/ ValidateVersioning

InitVersioning ==
  /\ InitChain
  /\ invalidDepth = 0

SpecVersioning == InitVersioning /\ [][NextVersioning]_vars

\* the options of a seal function: the object itself, or its previous
\* header hash alone
SealPrevOpts(by, object, base) ==
  IF by = "object" THEN [object |-> object, basePubKey |-> base]
  ELSE [prevHeaderHash |-> Get(object, PREVHEADER), basePubKey |-> base]

\* protocol.sealPubKey({ object, basePubKey })
SealPubKey ==
  /\ call = <<>>
  /\ \E k \in DOMAIN chain, base \in BaseKeys :
       LET result == calcSealPubKey([object |-> chain[k], basePubKey |-> base])
       IN call' = <<[op |-> "sealPubKey", object |-> chain[k], basePubKey |-> base,
                     threw |-> IsError(result), result |-> result]>>
  /\ UNCHANGED <<chain, draft, invalidDepth, mvars, avars>>

\* protocol.verifySealPubKey({ object, basePubKey, sealPubKey }) with the key
\* sealPubKey returned
VerifySealPubKey ==
  /\ call # <<>>
  /\ call[1].op = "sealPubKey"
  /\ ~call[1].threw
  /\ \E k \in DOMAIN chain, base \in BaseKeys :
       LET result == verifySealPubKey([object |-> chain[k], basePubKey |-> base,
                                       sealPubKey |-> call[1].result])
       IN call' = <<[op |-> "verifySealPubKey", object |-> chain[k], basePubKey |-> base,
                     sealOf |-> [object |-> call[1].object, basePubKey |-> call[1].basePubKey],
                     threw |-> IsError(result), result |-> result]>>
  /\ UNCHANGED <<chain, draft, invalidDepth, mvars, avars>>

\* protocol.sealPrevPubKey({ object, basePubKey }) and
\* protocol.sealPrevPubKey({ prevHeaderHash: object[PREVHEADER], basePubKey })
SealPrevPubKey ==
  /\ call = <<>>
  /\ \E k \in DOMAIN chain, base \in BaseKeys, by \in {"object", "prevHeaderHash"} :
       LET result == calcSealPrevPubKey(SealPrevOpts(by, chain[k], base))
       IN call' = <<[op |-> "sealPrevPubKey", object |-> chain[k], basePubKey |-> base,
                     by |-> by, threw |-> IsError(result), result |-> result]>>
  /\ UNCHANGED <<chain, draft, invalidDepth, mvars, avars>>

\* protocol.verifySealPrevPubKey({ ..., sealPrevPubKey }) with the key
\* sealPrevPubKey returned
VerifySealPrevPubKey ==
  /\ call # <<>>
  /\ call[1].op = "sealPrevPubKey"
  /\ ~call[1].threw
  /\ \E k \in DOMAIN chain, base \in BaseKeys, by \in {"object", "prevHeaderHash"} :
       LET result == verifySealPrevPubKey(
                       SealPrevOpts(by, chain[k], base) @@ [sealPrevPubKey |-> call[1].result])
       IN call' = <<[op |-> "verifySealPrevPubKey", object |-> chain[k], basePubKey |-> base,
                     by |-> by,
                     sealOf |-> [object |-> call[1].object, basePubKey |-> call[1].basePubKey,
                                 by |-> call[1].by],
                     threw |-> IsError(result), result |-> result]>>
  /\ UNCHANGED <<chain, draft, invalidDepth, mvars, avars>>

InitSeal ==
  /\ InitChain
  /\ invalidDepth \in 0..MaxRehash

NextSeal ==
  \/ CreateObject \/ CreateNextObject \/ Sign \/ SignAsWitness
  \/ SealPubKey \/ VerifySealPubKey \/ SealPrevPubKey \/ VerifySealPrevPubKey

SpecSeal == InitSeal /\ [][NextSeal]_vars

-----------------------------------------------------------------------------
(* Claims about version chain validation *)

Validated == call # <<>> /\ call[1].op = "validateVersioning"
PositiveVersion(object) ==
  TypeOf(Get(object, VERSION)) = "number" /\ Get(object, VERSION)[2] > 0
ZeroVersion(object) == ~Has(object, VERSION) \/ Get(object, VERSION) = Num(0)
\* the object's links are those of prev and orig
LinksMatch(object, prev, orig) ==
  /\ Get(object, PREVLINK) = getLink(prev)
  /\ Get(object, PREVHEADER) = getSealHeaderHash(prev[2])
  /\ Get(object, PERMALINK) = (IF TypeOf(orig) = "string" THEN orig ELSE getLink(orig))

\* C2: with v1 signed, v2 of a version above 0 and prev = orig = v1,
\* validateVersioning does not throw when v2's prevlink is link(v1), its
\* prevheader is headerHash(v1) and its permalink is link(v1); it throws as
\* soon as one of the three is another value.
C2_LinksOfPrevAreChecked ==
  (/\ Validated
   /\ PositiveVersion(call[1].object)
   /\ call[1].prev # UNDEFINED
   /\ call[1].orig = call[1].prev
   /\ {PREVLINK, PREVHEADER, PERMALINK} \subseteq DOMAIN call[1].object.at)
    => (call[1].threw <=> ~LinksMatch(call[1].object, call[1].prev, call[1].orig))

C2_Witness ==
  /\ Validated
  /\ PositiveVersion(call[1].object)
  /\ call[1].prev # UNDEFINED
  /\ call[1].orig = call[1].prev
  /\ isWitnessed(call[1].prev[2])
  /\ LinksMatch(call[1].object, call[1].prev, call[1].orig)
  /\ ~call[1].threw

\* C3: for an object of a version above 0 whose prevlink, prevheader and
\* permalink match prev and orig, validateVersioning throws when the
\* object's timestamp is not greater than prev's.
C3_TimestampMustIncrease ==
  (/\ Validated
   /\ PositiveVersion(call[1].object)
   /\ call[1].prev # UNDEFINED
   /\ call[1].orig # UNDEFINED
   /\ LinksMatch(call[1].object, call[1].prev, call[1].orig)
   /\ Get(call[1].object, TIMESTAMP)[2] <= Get(call[1].prev[2], TIMESTAMP)[2])
    => call[1].threw

\* C4: for an object of version 0 or of no version, validateVersioning
\* succeeds only if the object has no prevlink, no prevheader and no
\* permalink and neither prev nor orig is given; it throws if any one of
\* the five is there.
C4_ZeroVersionExpectsNoLinks ==
  (Validated /\ ZeroVersion(call[1].object))
    => (~call[1].threw <=>
          /\ ~Has(call[1].object, PREVLINK)
          /\ ~Has(call[1].object, PREVHEADER)
          /\ ~Has(call[1].object, PERMALINK)
          /\ call[1].prev = UNDEFINED
          /\ call[1].orig = UNDEFINED)

-----------------------------------------------------------------------------
(* Claims about seal keys *)

Called(op) == call # <<>> /\ call[1].op = op

\* C8: the key sealPubKey makes of a signed object and a base key B is
\* accepted by verifySealPubKey with the same object and B, and rejected
\* with the same object and any other base key.
C8_SealVerifiesWithItsBaseOnly ==
  (/\ Called("verifySealPubKey")
   /\ call[1].object = call[1].sealOf.object
   /\ chainPubKey(call[1].basePubKey))
    => /\ ~call[1].threw
       /\ call[1].result = Bool(TRUE) <=> call[1].basePubKey = call[1].sealOf.basePubKey

C8_Witness ==
  /\ Called("verifySealPubKey")
  /\ call[1].object = call[1].sealOf.object
  /\ isWitnessed(call[1].object)
  /\ invalidDepth > 0
  /\ call[1].basePubKey = call[1].sealOf.basePubKey
  /\ ~call[1].threw
  /\ call[1].result = Bool(TRUE)

\* C9: for a signed object that carries a prevheader, sealPrevPubKey gives
\* the same key from the object and from prevHeaderHash = its prevheader,
\* and verifySealPrevPubKey accepts that key with the same base key and
\* rejects it with any other.
C9_PrevSealFromObjectOrHash ==
  /\ (/\ Called("sealPrevPubKey")
      /\ Has(call[1].object, PREVHEADER)
      /\ chainPubKey(call[1].basePubKey))
       => /\ ~call[1].threw
          /\ call[1].result =
               calcSealPrevPubKey(SealPrevOpts(
                 IF call[1].by = "object" THEN "prevHeaderHash" ELSE "object",
                 call[1].object, call[1].basePubKey))
  /\ (/\ Called("verifySealPrevPubKey")
      /\ call[1].object = call[1].sealOf.object
      /\ chainPubKey(call[1].basePubKey))
       => /\ ~call[1].threw
          /\ call[1].result = Bool(TRUE) <=> call[1].basePubKey = call[1].sealOf.basePubKey

C9_Witness ==
  /\ Called("verifySealPrevPubKey")
  /\ call[1].object = call[1].sealOf.object
  /\ call[1].by = "object"
  /\ call[1].sealOf.by = "prevHeaderHash"
  /\ Get(call[1].object, PREVHEADER) # Get(call[1].object, PREVLINK)
  /\ call[1].basePubKey = call[1].sealOf.basePubKey
  /\ ~call[1].threw
  /\ call[1].result = Bool(TRUE)

\* C10: with one base key, the previous-version seal key of v2, whose
\* prevheader is headerHash(v1), is never the seal key of v1.
C10_PrevSealIsNotTheSeal ==
  (/\ Called("sealPrevPubKey")
   /\ ~call[1].threw)
    => \A k \in DOMAIN chain :
         Get(call[1].object, PREVHEADER) = getSealHeaderHash(chain[k])
           => call[1].result #
                calcSealPubKey([object |-> chain[k], basePubKey |-> call[1].basePubKey])

-----------------------------------------------------------------------------
(* Links of objects and of hashes.  The callers give getLink a signed       *)
(* version, with or without an organizational signature in its header, or   *)
(* a buffer, and may give getLink the link it returned.                      *)

Digests == {Buf(sha256("x")), Buf(sha256(sha256("x")))}
ShortBuffers == {Buf("abc")}
WithOrgSig(object) == Put(object, ORG_SIG, Str("b3Jn"))

\* protocol.linkString(input) and, for an object, protocol.headerHash(input)
GetLink ==
  /\ call = <<>>
  /\ \E input \in {Obj(chain[k]) : k \in DOMAIN chain}
                   \cup {Obj(WithOrgSig(chain[k])) : k \in DOMAIN chain}
                   \cup Digests \cup ShortBuffers :
       LET result == getLink(input)
       IN call' = <<[op |-> "getLink", input |-> input,
                     threw |-> IsError(result), result |-> result,
                     headerHash |-> IF TypeOf(input) = "object"
                                    THEN getSealHeaderHash(input[2]) ELSE UNDEFINED]>>
  /\ UNCHANGED <<chain, draft, invalidDepth, mvars, avars>>

\* protocol.linkString(link) of the link getLink returned
GetLinkAgain ==
  /\ call # <<>>
  /\ call[1].op = "getLink"
  /\ ~call[1].threw
  /\ LET result == getLink(call[1].result)
     IN call' = <<[op |-> "getLinkAgain", input |-> call[1].result, of |-> call[1].input,
                   threw |-> IsError(result), result |-> result]>>
  /\ UNCHANGED <<chain, draft, invalidDepth, mvars, avars>>

\* protocol.tree(object) of a version as it is, of its body, and of the
\* version with its signature taken off
TreeOf ==
  /\ call = <<>>
  /\ \E k \in DOMAIN chain :
       \E input \in {chain[k], removeHeader(chain[k]), omit(chain[k], <<SIG>>),
                      omit(WithOrgSig(chain[k]), <<SIG>>)} :
         LET tree == createMerkleTree(input, NoOpts)
         IN call' = <<[op |-> "tree", input |-> input,
                       threw |-> IsError(tree), result |-> tree]>>
  /\ UNCHANGED <<chain, draft, invalidDepth, mvars, avars>>

\* toPrivateKey(hash), as pubKeyFromHeaderHash calls it: of a header hash
\* (hex text), of its bytes, of a digest and of a buffer of another length
ToPrivateKey ==
  /\ call = <<>>
  /\ \E input \in {getSealHeaderHash(chain[k]) : k \in DOMAIN chain}
                   \cup {Buf(toBuffer(getSealHeaderHash(chain[k]))) : k \in DOMAIN chain}
                   \cup Digests \cup ShortBuffers
                   \cup {Str(toHex(b[2])) : b \in Digests \cup ShortBuffers} :
       call' = <<[op |-> "toPrivateKey", input |-> input,
                  threw |-> FALSE, result |-> toPrivateKey(input)]>>
  /\ UNCHANGED <<chain, draft, invalidDepth, mvars, avars>>

\* an author whose sign callback reports an error
FailingSigner == [signError |-> "signer failed"] @@ bob

\* the options of a call besides its object: none, or leaf and parent
MerkleOptions == {NoOpts, PLAIN_MERKLE_OPTS}

\* protocol.promises.sign({ object, author, ...merkleOpts }) of the object
\* protocol.object returned, and of that object without its author
SignCall ==
  /\ call = <<>>
  /\ draft # <<>>
  /\ \E author \in {bob, FailingSigner}, merkle \in MerkleOptions,
        input \in {draft[1], omit(draft[1], <<AUTHOR>>)} :
       LET done == signCall([author |-> author, object |-> input] @@ merkle)
       IN call' = <<[op |-> "sign", input |-> input, author |-> author, merkle |-> merkle,
                     threw |-> IsError(done.outcome), result |-> done.outcome,
                     after |-> done.object]>>
  /\ UNCHANGED <<chain, draft, invalidDepth, mvars, avars>>

\* protocol.verify({ object, ...merkleOpts }) of the object sign returned
Verify ==
  /\ call # <<>>
  /\ call[1].op = "sign"
  /\ ~call[1].threw
  /\ \E merkle \in MerkleOptions :
       call' = <<[op |-> "verify", object |-> call[1].result.object,
                  signedWith |-> call[1].merkle, merkle |-> merkle, threw |-> FALSE,
                  result |-> verifySig([object |-> call[1].result.object] @@ merkle)]>>
  /\ UNCHANGED <<chain, draft, invalidDepth, mvars, avars>>

InitObject ==
  /\ InitChain
  /\ invalidDepth \in 0..MaxRehash

NextObject ==
  \/ CreateObject \/ CreateNextObject \/ Sign \/ SignAsWitness
  \/ GetLink \/ GetLinkAgain \/ TreeOf \/ ToPrivateKey \/ SignCall \/ Verify

SpecObject == InitObject /\ [][NextObject]_vars

-----------------------------------------------------------------------------
(* Claims about links *)

LinkedObject == Called("getLink") /\ TypeOf(call[1].input) = "object" /\ ~call[1].threw
HasMoreThanSig(object) == Has(object, WITNESSES) \/ Has(object, ORG_SIG)

\* C11, as stated: the link of every signed object is its header hash, also
\* when its header carries witnesses or an organizational signature.
C11_LinkIsHeaderHash == LinkedObject => call[1].result = call[1].headerHash

\* C11, amended: the link of a signed object is the hash of its signature
\* alone; it is the header hash exactly when the header carries neither
\* witnesses nor an organizational signature.
C11_LinkIsHashOfSigOnly ==
  LinkedObject =>
    /\ call[1].result = call[1].headerHash <=> ~HasMoreThanSig(call[1].input[2])
    /\ call[1].result = getLink(Obj(omit(call[1].input[2], <<WITNESSES, ORG_SIG>>)))

C11_Witness ==
  /\ LinkedObject
  /\ isWitnessed(call[1].input[2])
  /\ call[1].result # call[1].headerHash

\* C12: the link of a raw 32-byte hash is that hash (its bytes, as hex
\* text), and the link of the value getLink returned is that value again.
C12_LinkOfHashIsIdempotent ==
  /\ (Called("getLink") /\ call[1].input \in Digests)
       => ~call[1].threw /\ toBuffer(call[1].result) = call[1].input[2]
  /\ (Called("getLinkAgain") /\ call[1].of \in Digests)
       => ~call[1].threw /\ call[1].result = call[1].input

-----------------------------------------------------------------------------
(* Claims about the leaves of a tree *)

\* what a leaf holds of a header property: its name or its value
HeaderLeafData(object) ==
  {stringify(Str(p)) : p \in Range(HEADER_PROPS)}
    \cup {stringify(Get(object, p)) : p \in {q \in Range(HEADER_PROPS) : Has(object, q)}}

\* C13: tree refuses an object, or none of its leaves holds the name or the
\* value of a header property (signature, witnesses, organizational signature).
C13_NoHeaderPropertyIsALeaf ==
  (Called("tree") /\ ~call[1].threw)
    => \A node \in Range(getLeaves(call[1].result.nodes)) :
         node.data \notin HeaderLeafData(call[1].input)

-----------------------------------------------------------------------------
(* Claims about private keys *)

RECURSIVE Rehashed(_, _)
\* sha256 applied n times to h
Rehashed(h, n) == IF n = 0 THEN h ELSE sha256(Rehashed(h, n - 1))

\* the bytes the sequence of candidates starts with
FirstCandidate(input) ==
  LET bytes == IF TypeOf(input) = "string" THEN fromHex(input[2]) ELSE input[2]
  IN IF ByteLength(bytes) = 32 THEN bytes ELSE sha256(bytes)

\* C14: toPrivateKey returns the first valid private key of the sequence h0,
\* sha256(h0), sha256(sha256(h0)), ..., where h0 is the input when it is 32
\* bytes long and its sha256 otherwise; so the result is a valid private key
\* and a valid 32-byte input comes back unchanged.
C14_FirstValidPrivateKey ==
  Called("toPrivateKey") =>
    LET h0 == FirstCandidate(call[1].input)
    IN /\ privateKeyVerify(call[1].result)
       /\ ByteLength(call[1].result) = 32
       /\ \E n \in 0..(MaxRehash + 1) :
            /\ call[1].result = Rehashed(h0, n)
            /\ \A m \in 0..(n - 1) : ~privateKeyVerify(Rehashed(h0, m))
       /\ privateKeyVerify(h0) => call[1].result = h0

C14_Witness ==
  /\ Called("toPrivateKey")
  /\ TypeOf(call[1].input) = "buffer"
  /\ ByteLength(call[1].input[2]) = 32
  /\ ~privateKeyVerify(call[1].input[2])
  /\ call[1].result = sha256(call[1].input[2])

-----------------------------------------------------------------------------
(* Claims about sign and verify *)

\* C15: when the author's sign callback reports an error, sign rejects with
\* that error and returns no signed object; whether it rejects or resolves,
\* the object it was given is as it was, without a signature, and the
\* signature is on the returned copy only.
C15_SignLeavesItsInput ==
  Called("sign") =>
    /\ call[1].after = call[1].input
    /\ ~Has(call[1].after, SIG)
    /\ ("signError" \in DOMAIN call[1].author /\ ~IsError(signObjectInput(call[1].input)))
         => call[1].threw /\ call[1].result = Threw(call[1].author.signError)
    /\ ~call[1].threw
         => /\ Get(call[1].result.object, SIG) = call[1].result.sig
            /\ omit(call[1].result.object, <<SIG>>) = call[1].input

C15_Witness ==
  /\ Called("sign")
  /\ "signError" \in DOMAIN call[1].author
  /\ call[1].threw
  /\ call[1].result = Threw("signer failed")
  /\ call[1].after = call[1].input

\* C16: verify is true of the object sign returned for a valid unsigned
\* object, when both calls have the same Merkle options: none, or the same
\* leaf and parent functions.
C16_VerifyAcceptsWhatSignReturned ==
  (/\ Called("verify")
   /\ Has(call[1].object, AUTHOR)
   /\ call[1].merkle = call[1].signedWith)
    => call[1].result = TRUE

C16_Witness ==
  /\ Called("verify")
  /\ Has(call[1].object, AUTHOR)
  /\ call[1].merkle = PLAIN_MERKLE_OPTS
  /\ call[1].signedWith = PLAIN_MERKLE_OPTS
  /\ call[1].result = TRUE

-----------------------------------------------------------------------------
(* Callers of preProcessForMerklization.  The caller builds an object with *)
(* embedded media, as the test 'replace embedded media, pre-merklization'  *)
(* does, and pre-processes it, then pre-processes what it got.             *)

MaxMedia == 2

dataUrl == "data:image/png;base64,AAAA"
keeperUri == "tradle-keeper://deadbeef?mime=image/png"
MediaStrings == {dataUrl, keeperUri, "data:", "deadbeef"}
MediaNames == {"dataUrlProp", "keeperUriProp", "nestedDataUrlProp"}
NestedMedia(text) == Obj(Put(Put(EmptyObject, "a", Num(1)), "dataUrlProp", Str(text)))
MediaValues ==
  {Str(text) : text \in MediaStrings}
    \cup {NestedMedia(text) : text \in MediaStrings}
    \cup {Arr(<<Num(1), Str(text)>>) : text \in {dataUrl, keeperUri}}
MediaProtocolVersions == {"4.0.0", "5.0.0"}
MediaBase == Put(Put(EmptyObject, TYPE, Str("something")), AUTHOR, Str("bob"))

InitMedia ==
  /\ chain = <<>>
  /\ draft = <<MediaBase>>
  /\ invalidDepth = 0
  /\ call = <<>>
  /\ mobj = EmptyObject
  /\ mopts = NoOpts
  /\ mreordered = EmptyObject
  /\ mroots = <<>>
  /\ mtree = <<>>
  /\ mleaves = <<>>
  /\ mproof = <<>>
  /\ mverify = <<>>
  /\ asyncified = <<>>
  /\ eventLoop = IdleLoop

\* object[name] = value, for a property the object does not have yet
SetMedia ==
  /\ call = <<>>
  /\ Cardinality(DOMAIN draft[1].at \cap MediaNames) < MaxMedia
  /\ \E name \in MediaNames \ DOMAIN draft[1].at, value \in MediaValues :
       draft' = <<Put(draft[1], name, value)>>
  /\ UNCHANGED <<mvars, chain, invalidDepth, call, avars>>

\* object[PROTOCOL_VERSION] = version
SetProtocolVersion ==
  /\ call = <<>>
  /\ \E version \in MediaProtocolVersions :
       draft' = <<Put(draft[1], PROTOCOL_VERSION, Str(version))>>
  /\ UNCHANGED <<mvars, chain, invalidDepth, call, avars>>

\* preProcessForMerklization(object, merkleOpts)
PreProcess ==
  /\ call = <<>>
  /\ \E merkle \in MerkleOptions :
       call' = <<[op |-> "preProcess", input |-> draft[1], merkle |-> merkle,
                  effect |-> preProcessCall(draft[1], merkle)]>>
  /\ UNCHANGED <<mvars, chain, draft, invalidDepth, avars>>

\* preProcessForMerklization(preprocessed, merkleOpts)
PreProcessAgain ==
  /\ Called("preProcess")
  /\ call' = <<[op |-> "preProcessAgain", input |-> call[1].effect.returned,
                merkle |-> call[1].merkle, of |-> call[1].input,
                effect |-> preProcessCall(call[1].effect.returned, call[1].merkle)]>>
  /\ UNCHANGED <<mvars, chain, draft, invalidDepth, avars>>

\* tree(object, merkleOpts)
TreeOfMedia ==
  /\ call = <<>>
  /\ \E merkle \in MerkleOptions :
       call' = <<[op |-> "tree", input |-> draft[1], merkle |-> merkle,
                  result |-> createMerkleTree(draft[1], merkle)]>>
  /\ UNCHANGED <<mvars, chain, draft, invalidDepth, avars>>

NextMedia == SetMedia \/ SetProtocolVersion \/ PreProcess \/ PreProcessAgain \/ TreeOfMedia

SpecMedia == InitMedia /\ [][NextMedia]_vars

-----------------------------------------------------------------------------
(* Claims about embedded media *)

\* what a string is to become: the hash in a keeper URI, the hex text of the
\* leaf hash of a data URI's bytes, itself otherwise
HashOfMedia(merkleOpts, text) ==
  IF text \in DOMAIN KeeperUriHash THEN KeeperUriHash[text]
  ELSE IF text \in DOMAIN DataUriBytes
       THEN toHex(LeafHash(merkleOpts @@ DEFAULT_MERKLE_OPTS,
                           [data |-> DataUriBytes[text], index |-> 0, parent |-> 0]))
       ELSE text

RECURSIVE MediaReplaced(_, _, _)
\* after is before with every string replaced by HashOfMedia, at any depth
MediaReplaced(merkleOpts, before, after) ==
  CASE TypeOf(before) = "string" ->
         after = Str(HashOfMedia(merkleOpts, before[2]))
    [] TypeOf(before) = "array" ->
         /\ TypeOf(after) = "array"
         /\ DOMAIN after[2] = DOMAIN before[2]
         /\ \A i \in DOMAIN before[2] : MediaReplaced(merkleOpts, before[2][i], after[2][i])
    [] TypeOf(before) = "object" ->
         /\ TypeOf(after) = "object"
         /\ after[2].order = before[2].order
         /\ DOMAIN after[2].at = DOMAIN before[2].at
         /\ \A k \in DOMAIN before[2].at :
              MediaReplaced(merkleOpts, before[2].at[k], after[2].at[k])
    [] OTHER -> after = before

AboveThreshold(object) ==
  Has(object, PROTOCOL_VERSION) /\ SemverMajor[Get(object, PROTOCOL_VERSION)[2]] > 4

\* C17: at or below the threshold, or without protocolVersion,
\* preProcessForMerklization returns the very object it was given, unchanged;
\* above it, it returns another object in which every keeper URI and every
\* decodable data URI, at any depth, is replaced by its hash and every other
\* value (a malformed data URI too) is as it was; the caller's object keeps
\* its values in both cases.
C17_PreProcessReplacesMediaInACopy ==
  Called("preProcess") =>
    /\ call[1].effect.argument = call[1].input
    /\ IF AboveThreshold(call[1].input)
       THEN /\ ~call[1].effect.same
            /\ MediaReplaced(call[1].merkle, Obj(call[1].input), Obj(call[1].effect.returned))
       ELSE /\ call[1].effect.same
            /\ call[1].effect.returned = call[1].input

C17_Witness ==
  /\ Called("preProcess")
  /\ AboveThreshold(call[1].input)
  /\ Get(call[1].input, "keeperUriProp") = Str(keeperUri)
  /\ Get(call[1].input, "nestedDataUrlProp") = NestedMedia(dataUrl)
  /\ Get(call[1].effect.returned, "keeperUriProp") = Str("deadbeef")
  /\ Get(call[1].effect.returned, "nestedDataUrlProp") = NestedMedia(toHex(sha256("000000")))

\* C18: above the threshold, pre-processing an object that was already
\* pre-processed returns an object equal to it.
C18_PreProcessIsIdempotent ==
  (Called("preProcessAgain") /\ AboveThreshold(call[1].of))
    => call[1].effect.returned = call[1].input

C18_Witness ==
  /\ Called("preProcessAgain")
  /\ AboveThreshold(call[1].of)
  /\ call[1].input # call[1].of
  /\ call[1].effect.returned = call[1].input

-----------------------------------------------------------------------------
(* Callers of the type checks.  The caller sets the properties of an       *)
(* object one after the other and hands the object to a check.             *)

\* values of an ordinary property: defined ones, null and undefined, at the
\* top and nested in an object or an array
Nested(value) == Obj(Put(EmptyObject, "a", value))
BlahValues ==
  {Num(1), NULL, UNDEFINED, Nested(Num(1)), Nested(NULL), Nested(UNDEFINED),
   Arr(<<Num(1), NULL>>), Arr(<<Num(1), UNDEFINED>>), Nested(Arr(<<Nested(UNDEFINED)>>))}

TypeProps == <<"blah", TYPE, VERSION, AUTHOR, TIMESTAMP, PERMALINK, PREVLINK, PREVHEADER, SIG>>
TypeValues ==
  ("blah" :> BlahValues)
    @@ (TYPE :> {Str(IDENTITY), Str("something")})
    @@ (VERSION :> {Num(0), Num(1)})
    @@ (AUTHOR :> {Str("bob")})
    @@ (TIMESTAMP :> {Num(1)})
    @@ (PERMALINK :> {Str("link")})
    @@ (PREVLINK :> {Str("link")})
    @@ (PREVHEADER :> {Str("header")})
    @@ (SIG :> {Str("sig")})
TypeChecks ==
  {"ensureCorrectlyPermalinked", "signObjectInput", "object", "rawObject", "signedObject",
   "createObjectInput"}

\* check(val), for a check of lib/types.ts by its name
CheckOf(check, val) ==
  CASE check = "ensureCorrectlyPermalinked" -> ensureCorrectlyPermalinked(val)
    [] check = "signObjectInput" -> signObjectInput(val)
    [] check = "object" -> ensureRequiredProps(val)
    [] check = "rawObject" -> rawObject(val)
    [] check = "signedObject" -> signedObject(val)
    [] check = "createObjectInput" -> createObjectInput(val)

InitTypes ==
  /\ chain = <<>>
  /\ draft = <<EmptyObject>>
  /\ invalidDepth = 0
  /\ call = <<>>
  /\ mobj = EmptyObject
  /\ mopts = NoOpts
  /\ mreordered = EmptyObject
  /\ mroots = <<>>
  /\ mtree = <<>>
  /\ mleaves = <<>>
  /\ mproof = <<>>
  /\ mverify = <<>>
  /\ asyncified = <<>>
  /\ eventLoop = IdleLoop

\* object[name] = value, the properties in the order of TypeProps
SetProp ==
  /\ call = <<>>
  /\ \E i \in DOMAIN TypeProps :
       /\ \A j \in i..Len(TypeProps) : ~Has(draft[1], TypeProps[j])
       /\ \E value \in TypeValues[TypeProps[i]] :
            draft' = <<Put(draft[1], TypeProps[i], value)>>
  /\ UNCHANGED <<mvars, chain, invalidDepth, call, avars>>

\* check(object)
TypeCheck ==
  /\ call = <<>>
  /\ \E check \in TypeChecks :
       call' = <<[op |-> check, input |-> draft[1],
                  accepted |-> ~IsError(CheckOf(check, draft[1]))]>>
  /\ UNCHANGED <<mvars, chain, draft, invalidDepth, avars>>

NextTypes == SetProp \/ TypeCheck

SpecTypes == InitTypes /\ [][NextTypes]_vars

-----------------------------------------------------------------------------
(* Claims about the type checks *)

VersionAbsentOrZero(object) == ~Has(object, VERSION) \/ Get(object, VERSION) = Num(0)
VersionAboveZero(object) ==
  Has(object, VERSION) /\ TypeOf(Get(object, VERSION)) = "number" /\ Get(object, VERSION)[2] > 0
LinkProps == {PREVLINK, PREVHEADER, PERMALINK}

\* C19: an object ensureCorrectlyPermalinked accepts (so an object sign
\* accepts) has either no version or version 0 and none of prevlink,
\* prevheader and permalink, or a version above 0 and all three of them.
C19_AcceptedIsAllOrNothing ==
  (call # <<>> /\ call[1].op \in {"ensureCorrectlyPermalinked", "signObjectInput"}
     /\ call[1].accepted)
    => \/ /\ VersionAbsentOrZero(call[1].input)
          /\ \A p \in LinkProps : ~Has(call[1].input, p)
       \/ /\ VersionAboveZero(call[1].input)
          /\ \A p \in LinkProps : Has(call[1].input, p)

ObjectChecks == {"object", "rawObject", "signedObject"}
ZeroVersionIdentity(object) ==
  Get(object, TYPE) = Str(IDENTITY) /\ VersionAbsentOrZero(object)

\* what the check asks of an object besides its author
MeetsOtherRequirements(check, object) ==
  /\ ~IsError(ensureRequiredPropsPreSign(object))
  /\ check = "rawObject" => ~IsError(ensureUnsigned(object))
  /\ check = "signedObject" => ~IsError(ensureSigned(object))

\* C20: an object without author that meets the other requirements of
\* types.object, rawObject or signedObject is accepted exactly when it is the
\* zero-version identity object: its type is the identity type and its
\* version is 0 or absent.
C20_AuthorlessOnlyZeroVersionIdentity ==
  (call # <<>> /\ call[1].op \in ObjectChecks /\ ~Has(call[1].input, AUTHOR)
     /\ MeetsOtherRequirements(call[1].op, call[1].input))
    => (call[1].accepted <=> ZeroVersionIdentity(call[1].input))

-----------------------------------------------------------------------------
(* Callers of the witness functions.  A version is signed, witnessed by    *)
(* alice or not, and then witnessed again, up to MaxWitnessCalls times,    *)
(* each call on the object the call before returned; or its witnesses are  *)
(* verified, as they are or with the changes of test 'sign as witness'.    *)

MaxWitnessCalls == 2

\* { a: 'abc', s: 'def' }
ForgedWitness == Obj(Put(Put(EmptyObject, "a", Str("abc")), "s", Str("def")))

\* the object, the object with a forged witness more, the object with
\* another body, and the object without its signature
WitnessedVariants(object) ==
  {object,
   Put(object, WITNESSES, Arr(Append(Witnesses(object), ForgedWitness))),
   Put(object, WITNESSES, Arr(<<ForgedWitness>> \o Witnesses(object))),
   Put(object, "a", Num(2)),
   omit(object, <<SIG>>)}

Witnessers == {alice, bob, FailingSigner}

\* promises.signAsWitness({ object, author, permalink }) of the last version
SignAsWitnessCall ==
  /\ call = <<>>
  /\ chain # <<>>
  /\ draft = <<>>
  /\ \E author \in Witnessers : \E permalink \in {author.permalink, UNDEFINED} :
       LET done == signAsWitnessCall([object |-> Last(chain), author |-> author,
                                      permalink |-> permalink])
       IN call' = <<[op |-> "signAsWitness", input |-> Last(chain), first |-> Last(chain),
                     threw |-> IsError(done.outcome), result |-> done.outcome,
                     after |-> done.object,
                     added |-> IF IsError(done.outcome) THEN <<>>
                               ELSE <<[a |-> permalink, author |-> author.name]>>]>>
  /\ UNCHANGED <<chain, draft, invalidDepth, mvars, avars>>

\* promises.signAsWitness of the object the call before resolved to
SignAsWitnessAgain ==
  /\ Called("signAsWitness")
  /\ ~call[1].threw
  /\ Len(call[1].added) < MaxWitnessCalls
  /\ \E author \in Witnessers :
       LET done == signAsWitnessCall([object |-> call[1].result, author |-> author,
                                      permalink |-> author.permalink])
       IN call' = <<[op |-> "signAsWitness", input |-> call[1].result, first |-> call[1].first,
                     threw |-> IsError(done.outcome), result |-> done.outcome,
                     after |-> done.object,
                     added |-> IF IsError(done.outcome) THEN call[1].added
                               ELSE Append(call[1].added,
                                           [a |-> author.permalink, author |-> author.name])]>>
  /\ UNCHANGED <<chain, draft, invalidDepth, mvars, avars>>

\* verifyWitnesses({ object }) of the last version, or of what the last
\* witness call resolved to
VerifyWitnesses ==
  /\ chain # <<>>
  /\ draft = <<>>
  /\ call = <<>> \/ (Called("signAsWitness") /\ ~call[1].threw)
  /\ \E object \in WitnessedVariants(IF call = <<>> THEN Last(chain) ELSE call[1].result) :
       call' = <<[op |-> "verifyWitnesses", input |-> object,
                  justWitnessed |-> (call # <<>> /\ object = call[1].result)
                                      \/ (call = <<>> /\ object = Last(chain)
                                            /\ isWitnessed(object)),
                  result |-> verifyWitnesses([object |-> object])]>>
  /\ UNCHANGED <<chain, draft, invalidDepth, mvars, avars>>

\* the witnesses a caller wraps and unwraps: those of the last version and
\* the forged one
KnownWitnesses == Range(Witnesses(Last(chain))) \cup {ForgedWitness}

\* { author, sig } of the witness { a, s }
Unwrapped(witness) ==
  Obj(Put(Put(EmptyObject, "author", Get(witness[2], "a")), "sig", Get(witness[2], "s")))

\* unwrapWitnessSig(wrapWitnessSig({ author, sig }))
WrapThenUnwrap ==
  /\ call = <<>>
  /\ chain # <<>>
  /\ \E witness \in KnownWitnesses :
       LET wrapped == wrapWitnessSig(Unwrapped(witness))
       IN call' = <<[op |-> "wrapThenUnwrap", input |-> Unwrapped(witness),
                     between |-> wrapped,
                     result |-> Try(wrapped, unwrapWitnessSig(wrapped))]>>
  /\ UNCHANGED <<chain, draft, invalidDepth, mvars, avars>>

\* wrapWitnessSig(unwrapWitnessSig({ a, s }))
UnwrapThenWrap ==
  /\ call = <<>>
  /\ chain # <<>>
  /\ \E witness \in KnownWitnesses :
       LET unwrapped == unwrapWitnessSig(witness)
       IN call' = <<[op |-> "unwrapThenWrap", input |-> witness,
                     between |-> unwrapped,
                     result |-> Try(unwrapped, wrapWitnessSig(unwrapped))]>>
  /\ UNCHANGED <<chain, draft, invalidDepth, mvars, avars>>

NextWitness ==
  \/ CreateObject \/ Sign \/ SignAsWitness
  \/ SignAsWitnessCall \/ SignAsWitnessAgain \/ VerifyWitnesses
  \/ WrapThenUnwrap \/ UnwrapThenWrap

SpecWitness == InitVersioning /\ [][NextWitness]_vars

-----------------------------------------------------------------------------
(* Claims about witnesses *)

\* the signature of the signer called name over the Merkle root of the
\* object's body
SignatureOver(object, name) ==
  Str(toBase64("ECSignature(" \o name \o "," \o computeMerkleRoot(removeHeader(object), NoOpts) \o ")"))

\* the entry is the signature of a signer over the Merkle root of the body
EntryVerifies(object, entry) ==
  \E name \in {"alice", "bob"} : Get(entry[2], "s") = SignatureOver(object, name)

\* C21: verifyWitnesses returns true exactly when every entry of the
\* witnesses list is a signature that verifies over the Merkle root of the
\* object's body, its header removed; so it is true of an object that
\* signAsWitness returned, and false when one entry is no valid signature.
C21_WitnessesVerifyOverTheBody ==
  Called("verifyWitnesses") =>
    /\ call[1].result =
         Bool(\A entry \in Range(Witnesses(call[1].input)) : EntryVerifies(call[1].input, entry))
    /\ call[1].justWitnessed => call[1].result = Bool(TRUE)

C21_Witness ==
  /\ Called("verifyWitnesses")
  /\ Len(Witnesses(call[1].input)) >= 2
  /\ EntryVerifies(call[1].input, Witnesses(call[1].input)[1])
  /\ Last(Witnesses(call[1].input)) = ForgedWitness
  /\ call[1].result = Bool(FALSE)

\* the witness a call adds: the permalink given and the author's signature
NewWitness(object, added) ==
  Obj(Put(Put(EmptyObject, "a", added.a), "s", SignatureOver(object, added.author)))

\* C27: signAsWitness leaves the object it is given as it was, its witnesses
\* list too; the object it returns has the same signature and body, the
\* witnesses the input had, in their order, and one new witness after them;
\* after k calls, each on the result of the call before, the witnesses are
\* the initial ones followed by the k new ones in the order of the calls.
C27_SignAsWitnessAppendsToACopy ==
  (Called("signAsWitness") /\ ~call[1].threw) =>
    /\ call[1].after = call[1].input
    /\ Get(call[1].result, SIG) = Get(call[1].input, SIG)
    /\ removeHeader(call[1].result) = removeHeader(call[1].input)
    /\ Witnesses(call[1].result) =
         Append(Witnesses(call[1].input), NewWitness(call[1].input, Last(call[1].added)))
    /\ Witnesses(call[1].result) =
         Witnesses(call[1].first)
           \o [i \in DOMAIN call[1].added |-> NewWitness(call[1].input, call[1].added[i])]

\* C30: wrapWitnessSig and unwrapWitnessSig are inverse of each other:
\* unwrapping the wrapped { author, sig } gives { author, sig } back, and
\* wrapping the unwrapped { a, s } gives { a, s } back.
C30_WrapAndUnwrapAreInverse ==
  /\ Called("wrapThenUnwrap") => ~IsError(call[1].result) /\ call[1].result = call[1].input
  /\ Called("unwrapThenWrap") => ~IsError(call[1].result) /\ call[1].result = call[1].input

-----------------------------------------------------------------------------
(* send and receive.  The curve is a cyclic group: the point k * G is      *)
(* written [point |-> k], k counted modulo the order of G, and [point |->  *)
(* 0] is the point at infinity.  The number a digest denotes, new          *)
(* BN(digest), is a fixed function of its bytes: here their count in the   *)
(* text that stands for the digest.                                        *)

CurveOrder == 7

BN(bytes) == Len(bytes)

\* secp256k1.keyFromPrivate(priv): the key pair, its public point g.mul(priv)
keyFromPrivate(priv) == [priv |-> priv % CurveOrder, pub |-> [point |-> priv % CurveOrder]]
\* secp256k1.keyFromPublic(pub)
keyFromPublic(pub) == [pub |-> pub]
\* point.add(other)
PointAdd(p, q) == [point |-> (p.point + q.point) % CurveOrder]

RECURSIVE messageFeedKeys(_, _, _, _, _)
\* keys.forEach(key => { gen.next(key, nodes); gen.next(JSON.stringify(msg[key]), nodes) })
messageFeedKeys(opts, gen, keys, msg, i) ==
  IF i > Len(keys) THEN gen
  ELSE LET g1 == GenNext(opts, gen, keys[i])
           g2 == GenNext(opts, g1, stringify(msg.at[keys[i]]))
       IN messageFeedKeys(opts, g2, keys, msg, i + 1)

\* createMerkleTree(opts) of send and receive: the nodes and roots of
\* opts.message, its keys sorted
messageTree(opts) ==
  CHOOSE tree \in
    {[nodes |-> Sort(gen.nodes, byIndexSort), roots |-> gen.roots] :
       gen \in {GenCloseUp(DEFAULT_MERKLE_OPTS,
                  messageFeedKeys(DEFAULT_MERKLE_OPTS, NewGenerator,
                                  getKeysSorted(opts.message), opts.message, 1))}} : TRUE

\* the public point taken for the message key itself
send_WithoutRecipient(opts) ==
  LET tree == messageTree(opts)
      merkleRoot == tree.roots[1].hash
      msgKey == keyFromPrivate(BN(merkleRoot))
  IN [msgKey |-> msgKey, destKey |-> keyFromPublic(msgKey.pub), root |-> merkleRoot]

\* send(opts): destPub = pub.add(msgKey.getPublic())
send(opts) ==
  LET tree == messageTree(opts)
      merkleRoot == tree.roots[1].hash
      msgKey == keyFromPrivate(BN(merkleRoot))
      destPub == PointAdd(opts.pub, msgKey.pub)
  IN [msgKey |-> msgKey, destKey |-> keyFromPublic(destPub), root |-> merkleRoot]

\* receive(opts): destPriv = priv.add(new BN(merkleRoot)).mod(secp256k1.n)
receive(opts) ==
  LET tree == messageTree(opts)
      merkleRoot == tree.roots[1].hash
      destPriv == (opts.priv + BN(merkleRoot)) % CurveOrder
  IN [msgKey |-> merkleRoot, destKey |-> keyFromPrivate(destPriv)]

\* the private keys of the recipients
RecipientPrivs == 1..(CurveOrder - 1)

InitSend ==
  /\ chain = <<>>
  /\ draft = <<>>
  /\ invalidDepth = 0
  /\ call = <<>>
  /\ mobj = EmptyObject
  /\ mopts = NoOpts
  /\ mreordered = EmptyObject
  /\ mroots = <<>>
  /\ mtree = <<>>
  /\ mleaves = <<>>
  /\ mproof = <<>>
  /\ mverify = <<>>
  /\ asyncified = <<>>
  /\ eventLoop = IdleLoop

\* protocol.send({ pub: recipient.getPublic(), message })
Send ==
  /\ call = <<>>
  /\ \E message \in MerkleObjects, priv \in RecipientPrivs :
       call' = <<[op |-> "send", message |-> message, priv |-> priv,
                  sent |-> send([pub |-> keyFromPrivate(priv).pub, message |-> message])]>>
  /\ UNCHANGED <<chain, draft, invalidDepth, mvars, avars>>

\* protocol.receive({ priv: recipient.priv, message }) of the message sent
Receive ==
  /\ Called("send")
  /\ call' = <<[op |-> "receive", message |-> call[1].message, priv |-> call[1].priv,
                sent |-> call[1].sent,
                received |-> receive([priv |-> call[1].priv, message |-> call[1].message])]>>
  /\ UNCHANGED <<chain, draft, invalidDepth, mvars, avars>>

NextSend == Send \/ Receive

SpecSend == InitSend /\ [][NextSend]_vars

\* C22: the destination public key send derives from the recipient's public
\* key and the message is the public key of the destination private key that
\* receive derives from the recipient's private key and the same message.
C22_SendAndReceiveAgree ==
  Called("receive") => call[1].sent.destKey.pub = call[1].received.destKey.pub

C22_Witness ==
  /\ Called("receive")
  /\ call[1].priv + BN(call[1].sent.root) >= CurveOrder
  /\ call[1].sent.destKey.pub = call[1].received.destKey.pub
  /\ call[1].sent.destKey.pub # call[1].sent.msgKey.pub

-----------------------------------------------------------------------------
(* Claims about the leaves and the indices of a tree *)

\* nodes[i] of the JavaScript array, or << >> when it has no such element
ArrayAt(nodes, i) == IF i + 1 \in DOMAIN nodes THEN nodes[i + 1] ELSE <<>>

\* the data of the leaves key1, value1, key2, value2, ... of the object
LeafDataInOrder(keys, processed) ==
  [i \in 1..(2 * Len(keys)) |->
     IF i % 2 = 1 THEN stringify(Str(keys[(i + 1) \div 2]))
     ELSE stringify(processed.at[keys[i \div 2]])]

\* C23: for the property at position n of the sorted keys (n from 0),
\* tree.nodes[indices[name].key] is the leaf number 2n, holding the
\* stringified name, and tree.nodes[indices[name].value] the leaf number
\* 2n + 1, holding the stringified pre-processed value; the leaves in index
\* order are key1, value1, key2, value2, ..., and leaves(tree.nodes) returns
\* exactly these.
C23_IndicesPointAtTheLeaves ==
  (Called("tree") /\ ~IsError(call[1].result)) =>
    LET tree == call[1].result
        keys == getKeysSorted(call[1].input)
        processed == preProcessForMerklization(call[1].input, call[1].merkle)
        expected == LeafDataInOrder(keys, processed)
        leaves == getLeaves(tree.nodes)
    IN /\ DOMAIN tree.indices = Range(keys)
       /\ \A n \in DOMAIN keys :
            LET keyNode == ArrayAt(tree.nodes, tree.indices[keys[n]].key)
                valueNode == ArrayAt(tree.nodes, tree.indices[keys[n]].value)
            IN /\ keyNode # <<>> /\ valueNode # <<>>
               /\ keyNode.index = 2 * (2 * (n - 1))
               /\ keyNode.data = expected[2 * n - 1]
               /\ valueNode.index = 2 * (2 * (n - 1) + 1)
               /\ valueNode.data = expected[2 * n]
       /\ Len(leaves) = 2 * Len(keys)
       /\ \A i \in DOMAIN leaves : leaves[i].index = 2 * (i - 1) /\ leaves[i].data = expected[i]

C23_Witness ==
  /\ Called("tree")
  /\ ~IsError(call[1].result)
  /\ AboveThreshold(call[1].input)
  /\ Len(call[1].input.order) = 5
  /\ Get(call[1].input, "dataUrlProp") = Str(dataUrl)
  /\ ArrayAt(call[1].result.nodes, call[1].result.indices["dataUrlProp"].value).data
       = stringify(Str(toHex(sha256("000000"))))

-----------------------------------------------------------------------------
(* Claims about undefined and null values *)

RECURSIVE UndefinedWithin(_)
\* the value is undefined or holds undefined at some depth
UndefinedWithin(value) ==
  CASE value = UNDEFINED -> TRUE
    [] TypeOf(value) = "array" -> \E i \in DOMAIN value[2] : UndefinedWithin(value[2][i])
    [] TypeOf(value) = "object" -> \E k \in DOMAIN value[2].at : UndefinedWithin(value[2].at[k])
    [] OTHER -> FALSE

RECURSIVE NullWithin(_)
\* the value is null or holds null at some depth
NullWithin(value) ==
  CASE value = NULL -> TRUE
    [] TypeOf(value) = "array" -> \E i \in DOMAIN value[2] : NullWithin(value[2][i])
    [] TypeOf(value) = "object" -> \E k \in DOMAIN value[2].at : NullWithin(value[2].at[k])
    [] OTHER -> FALSE

UndefinedChecks == {"object", "rawObject", "createObjectInput"}

\* C24: types.object, rawObject and createObjectInput reject every object
\* that holds undefined at any depth, and an object with an explicit null in
\* an ordinary property is accepted whenever the same object with a number
\* in its place is.
C24_UndefinedRejectedNullAllowed ==
  (call # <<>> /\ call[1].op \in UndefinedChecks) =>
    /\ UndefinedWithin(Obj(call[1].input)) => ~call[1].accepted
    /\ (Has(call[1].input, "blah") /\ NullWithin(Get(call[1].input, "blah"))
          /\ ~UndefinedWithin(Get(call[1].input, "blah")))
         => (call[1].accepted
               <=> ~IsError(CheckOf(call[1].op, Put(call[1].input, "blah", Num(1)))))

C24_Witness ==
  /\ call # <<>>
  /\ call[1].op = "object"
  /\ Get(call[1].input, "blah") = Nested(Arr(<<Nested(UNDEFINED)>>))
  /\ ~call[1].accepted
  /\ ~IsError(CheckOf("object", Put(call[1].input, "blah", Nested(NULL))))

-----------------------------------------------------------------------------
(* The next version: the callers.  nextVersion is given the last signed    *)
(* version; what it returns is signed and validated against the chain.     *)

\* protocol.nextVersion(object, link), then promises.sign of what it
\* returned, then validateVersioning of the signed object
NextVersion ==
  /\ call = <<>>
  /\ chain # <<>>
  /\ draft = <<>>
  /\ \E now \in Times, link \in {UNDEFINED, getLink(Obj(Last(chain)))} :
       \E next \in {nextVersion(Last(chain), link, now)} :
         \E signed \in {IF IsError(next) THEN next
                         ELSE sign([author |-> bob, object |-> next])} :
           call' = <<[op |-> "nextVersion", prev |-> Last(chain), orig |-> chain[1],
                      k |-> Len(chain), now |-> now, link |-> link, next |-> next,
                      signed |-> signed,
                      validated |-> IF IsError(signed) THEN signed
                                    ELSE validateVersioning(
                                           [object |-> signed.object,
                                            prev |-> Obj(Last(chain)),
                                            orig |-> Obj(chain[1])])]>>
  /\ UNCHANGED <<chain, draft, invalidDepth, mvars, avars>>

\* protocol.validateVersioning({ object, prev, orig }) with any version of
\* the chain as prev and any as orig
ValidatePrevVersioning ==
  /\ call = <<>>
  /\ chain # <<>>
  /\ \E p \in DOMAIN chain, o \in DOMAIN chain :
       \E prevLink \in LinkInputs(getLink(Obj(chain[p]))),
          prevHeader \in LinkInputs(getSealHeaderHash(chain[p])),
          permalink \in LinkInputs(getLink(Obj(chain[o]))),
          t \in Times :
         LET object == PutIfSet(PutIfSet(PutIfSet(
                         Put(Put(Put(EmptyObject, "a", Num(2)), TIMESTAMP, Num(t)),
                             VERSION, Num(p)),
                         PREVLINK, prevLink), PREVHEADER, prevHeader),
                         PERMALINK, permalink)
         IN call' = <<[op |-> "validatePrevVersioning", object |-> object,
                       prev |-> chain[p], orig |-> chain[o],
                       result |-> validateVersioning([object |-> object,
                                                      prev |-> Obj(chain[p]),
                                                      orig |-> Obj(chain[o])])]>>
  /\ UNCHANGED <<chain, draft, invalidDepth, mvars, avars>>

NextNextVersion ==
  CreateObject \/ CreateNextObject \/ Sign \/ NextVersion \/ ValidatePrevVersioning

SpecNextVersion == InitVersioning /\ [][NextNextVersion]_vars

\* Date.now() is later than the timestamp of the version before
LaterThan(now, prev) ==
  notExists(Get(prev, TIMESTAMP)) \/ now > Get(prev, TIMESTAMP)[2]

\* C25: the version nextVersion builds from the latest signed version v_(k-1)
\* of a chain has version k, the link of v_(k-1) as prevlink, its header
\* hash as prevheader and the link of v0 as permalink; it can be signed, and
\* validateVersioning of the signed v_k with prev v_(k-1) and orig v0 does
\* not throw.
C25_NextVersionContinuesTheChain ==
  Called("nextVersion") /\ LaterThan(call[1].now, call[1].prev) =>
    LET next == call[1].next
    IN /\ ~IsError(next)
       /\ Get(next, VERSION) = Num(call[1].k)
       /\ Get(next, PREVLINK) = getLink(Obj(call[1].prev))
       /\ Get(next, PREVHEADER) = getSealHeaderHash(call[1].prev)
       /\ Get(next, PERMALINK) = getLink(Obj(call[1].orig))
       /\ ~IsError(call[1].signed)
       /\ ~IsError(call[1].validated)

\* the links of the validated object name prev and orig
LinksName(object, prev, orig) ==
  /\ Get(object, PREVLINK) = getLink(Obj(prev))
  /\ Get(object, PREVHEADER) = getSealHeaderHash(prev)
  /\ Get(object, PERMALINK) = getLink(Obj(orig))

\* C26: for an object of a version above 0 whose prevlink and prevheader
\* match prev and whose permalink matches orig, validateVersioning throws
\* 'expected object._r === prev._r' when prev carries a permalink other than
\* the object's, and does not throw it when prev carries no permalink.
C26_PrevPermalinkMustAgree ==
  Called("validatePrevVersioning")
    /\ LinksName(call[1].object, call[1].prev, call[1].orig) =>
    IF exists(Get(call[1].prev, PERMALINK))
    THEN Get(call[1].prev, PERMALINK) # Get(call[1].object, PERMALINK) =>
           call[1].result = Threw("expected object._r === prev._r")
    ELSE call[1].result # Threw("expected object._r === prev._r")

C26_Witness ==
  /\ Called("validatePrevVersioning")
  /\ LinksName(call[1].object, call[1].prev, call[1].orig)
  /\ exists(Get(call[1].prev, PERMALINK))
  /\ Get(call[1].prev, PERMALINK) # Get(call[1].object, PERMALINK)
  /\ IsError(call[1].result)

-----------------------------------------------------------------------------
(* lib/utils.ts asyncify.  A function is a JavaScript value that carries   *)
(* its name, its _async mark and, for the functions of the callers below,  *)
(* whether its body calls the wrapper back.  st holds the variables of the *)
(* closure (st.w) and the event loop (st.loop).                             *)

Function(name, marked, reenters) ==
  <<"function", [name |-> name, _async |-> marked, reenters |-> reenters]>>

isMarkedAsync(fn) == fn[2]._async

noop == Function("noop", FALSE, FALSE)

\* the function asyncifyDefined returns: asyncFn._async = true
asyncFnOf(fn) == Function("asyncFn(" \o fn[2].name \o ")", TRUE, FALSE)

\* what the body of a calling-back function passes to the wrapper
CallbackArgs == Arr(<<Str("again")>>)

RECURSIVE apply(_)
RECURSIVE asyncFn(_, _, _)

\* the once flag is never looked at
apply_EveryTime(st) ==
  LET entered == [st EXCEPT !.w.called = TRUE,
                            !.loop.invoked = Append(@, [ctx |-> st.w.ctx,
                                                        args |-> st.w.args,
                                                        ran |-> st.loop.ran])]
  IN IF st.w.fn[2].reenters /\ st.loop.invoked = <<>>
     THEN asyncFn(entered, UNDEFINED, CallbackArgs)
     ELSE entered

\* apply(): fn.apply(ctx, args) runs the body of fn, which may call asyncFn
apply(st) ==
  IF st.w.called /\ st.w.once THEN st
  ELSE LET entered == [st EXCEPT !.w.called = TRUE,
                                 !.loop.invoked = Append(@, [ctx |-> st.w.ctx,
                                                             args |-> st.w.args,
                                                             ran |-> st.loop.ran])]
       IN IF st.w.fn[2].reenters /\ st.loop.invoked = <<>>
          THEN asyncFn(entered, UNDEFINED, CallbackArgs)
          ELSE entered

\* the call is applied whether or not the microtask has run
asyncFn_WithoutWaiting(st, this, input) ==
  apply([st EXCEPT !.w.ctx = this, !.w.args = input,
                   !.loop.calls = Append(@, [ctx |-> this, args |-> input,
                                             ran |-> st.loop.ran])])

\* asyncFn.apply(this, input)
asyncFn(st, this, input) ==
  LET set == [st EXCEPT !.w.ctx = this, !.w.args = input,
                        !.loop.calls = Append(@, [ctx |-> this, args |-> input,
                                                  ran |-> st.loop.ran])]
  IN IF set.w.ticked THEN apply(set) ELSE set

\* the function given to queueMicrotask
microtask(st) ==
  IF st.w.args # UNDEFINED THEN apply(st) ELSE [st EXCEPT !.w.ticked = TRUE]

\* asyncifyDefined(fn, allowMultipleCalls): what it returns, the closure it
\* creates and the microtask it queues
asyncifyDefined(fn, allowMultipleCalls) ==
  [returned |-> asyncFnOf(fn),
   closure |-> <<[fn |-> fn, once |-> ~ok(allowMultipleCalls), called |-> FALSE,
                  ticked |-> FALSE, ctx |-> UNDEFINED, args |-> UNDEFINED]>>,
   queued |-> <<"microtask">>]

\* asyncify(fn, allowMultipleCalls)
asyncify(fn, allowMultipleCalls) ==
  IF fn = NULL \/ fn = UNDEFINED THEN [returned |-> noop, closure |-> <<>>, queued |-> <<>>]
  ELSE IF isMarkedAsync(fn) THEN [returned |-> fn, closure |-> <<>>, queued |-> <<>>]
  ELSE asyncifyDefined(fn, allowMultipleCalls)

(* The callers of asyncify *)

MaxCalls == 3

WrappedFunctions ==
  {NULL, UNDEFINED, Function("fn", FALSE, FALSE), Function("fn", FALSE, TRUE),
   Function("marked", TRUE, FALSE)}
AllowMultipleCalls == {UNDEFINED, Bool(FALSE), Bool(TRUE)}
CallArgs == {Arr(<<>>), Arr(<<Num(1)>>), Arr(<<Num(2)>>)}
ThisValues == {UNDEFINED, Str("this")}

InitAsyncify ==
  /\ InitChain
  /\ invalidDepth = 0

\* asyncify(fn, allowMultipleCalls) of a function of the caller
Asyncify ==
  /\ asyncified = <<>>
  /\ eventLoop.returned = <<>>
  /\ \E fn \in WrappedFunctions, allowMultipleCalls \in AllowMultipleCalls :
       LET made == asyncify(fn, allowMultipleCalls)
       IN /\ asyncified' = made.closure
          /\ eventLoop' = [eventLoop EXCEPT !.microtasks = @ \o made.queued,
                                            !.returned = <<[fn |-> fn,
                                                            returned |-> made.returned]>>]
  /\ UNCHANGED <<mvars, cvars>>

\* asyncify(asyncFn, allowMultipleCalls) of the function asyncify returned
AsyncifyAgain ==
  /\ asyncified # <<>>
  /\ Len(eventLoop.returned) = 1
  /\ \E allowMultipleCalls \in AllowMultipleCalls :
       LET made == asyncify(eventLoop.returned[1].returned, allowMultipleCalls)
       IN /\ asyncified' = IF made.closure = <<>> THEN asyncified ELSE made.closure
          /\ eventLoop' = [eventLoop EXCEPT !.microtasks = @ \o made.queued,
                                            !.returned = Append(@,
                                               [fn |-> eventLoop.returned[1].returned,
                                                returned |-> made.returned])]
  /\ UNCHANGED <<mvars, cvars>>

\* asyncFn.apply(this, input) by the caller
CallAsyncFn ==
  /\ asyncified # <<>>
  /\ Len(eventLoop.calls) < MaxCalls
  /\ \E this \in ThisValues, input \in CallArgs :
       LET after == asyncFn([w |-> asyncified[1], loop |-> eventLoop], this, input)
       IN /\ asyncified' = <<after.w>>
          /\ eventLoop' = after.loop
  /\ UNCHANGED <<mvars, cvars>>

\* the event loop runs the queued microtask
Tick ==
  /\ asyncified # <<>>
  /\ eventLoop.microtasks # <<>>
  /\ LET after == microtask([w |-> asyncified[1],
                             loop |-> [eventLoop EXCEPT !.microtasks = Tail(@),
                                                        !.ran = TRUE]])
     IN /\ asyncified' = <<after.w>>
        /\ eventLoop' = after.loop
  /\ UNCHANGED <<mvars, cvars>>

NextAsyncify == Asyncify \/ AsyncifyAgain \/ CallAsyncFn \/ Tick

SpecAsyncify == InitAsyncify /\ [][NextAsyncify]_vars

\* queueMicrotask: the queue is run once the code that called asyncify has
\* run to its end
SpecAsyncifyTicks == SpecAsyncify /\ WF_vars(Tick)

\* every invocation of the wrapped function found the microtask running or run
InvokedAfterTick == \A i \in DOMAIN eventLoop.invoked : eventLoop.invoked[i].ran
WrapperCalled == eventLoop.calls # <<>>
FunctionInvoked == eventLoop.invoked # <<>>

\* C28: the wrapped function is never invoked before the microtask queued
\* by asyncify runs, even when the wrapper is called before it; and once
\* the wrapper has been called, the wrapped function is eventually invoked.
C28_InvokedAfterTheTickAndEventually ==
  [](InvokedAfterTick) /\ (WrapperCalled ~> FunctionInvoked)

C28_Witness ==
  /\ eventLoop.calls # <<>>
  /\ ~eventLoop.calls[1].ran
  /\ eventLoop.invoked # <<>>
  /\ eventLoop.invoked[1].ran

\* the calls of the wrapper made before the microtask ran
EarlyCalls == SelectSeq(eventLoop.calls, LAMBDA made : ~made.ran)

\* the call whose arguments the wrapped function is to receive
DecisiveCall == IF EarlyCalls # <<>> THEN Last(EarlyCalls) ELSE eventLoop.calls[1]

\* C29: when allowMultipleCalls is not set, the wrapped function is invoked
\* at most once, with the arguments of the latest call of the wrapper made
\* before the tick, or of the first call when none was made before it; and
\* asyncify of an already wrapped function returns that function.
C29_OnceWithTheDecisiveArguments ==
  /\ asyncified # <<>> /\ asyncified[1].once =>
       /\ Len(eventLoop.invoked) <= 1
       /\ eventLoop.invoked # <<>> =>
            /\ eventLoop.invoked[1].args = DecisiveCall.args
            /\ eventLoop.invoked[1].ctx = DecisiveCall.ctx
  /\ \A i \in DOMAIN eventLoop.returned :
       LET fn == eventLoop.returned[i].fn
       IN exists(fn) /\ isMarkedAsync(fn) => eventLoop.returned[i].returned = fn

C29_Witness ==
  /\ asyncified # <<>>
  /\ asyncified[1].once
  /\ Len(EarlyCalls) >= 2
  /\ EarlyCalls[1].args # Last(EarlyCalls).args
  /\ Len(eventLoop.calls) > Len(EarlyCalls)
  /\ Len(eventLoop.invoked) = 1
  /\ Len(eventLoop.returned) = 2

====
